---- MODULE Spec2Model ----
(***************************************************************************)
(* Semantic ingestion pipeline of eduscale.tabular: the orchestrator       *)
(* process_tabular_text (pipeline.py), the table classifier, the column    *)
(* mapper and the entity resolver.                                         *)
(*                                                                         *)
(* Numbers.  Similarities and scores are real numbers in the code.  A       *)
(* mapping score is kept in hundredths (0.75 is 75); a softmax score is     *)
(* kept as the exact fraction num/den of the exponentiated scores.          *)
(***************************************************************************)
EXTENDS Integers, Sequences, FiniteSets, TLC

VARIABLES
    pc,             \* position of the running call of process_tabular_text
    text_content,   \* argument text_content (structure of the text)
    fm_arg,         \* argument frontmatter (None when not supplied)
    frontmatter,    \* local frontmatter
    clean_text,     \* local clean_text (the body after the frontmatter block)
    warnings,       \* local warnings list, shared with both paths
    table_type,     \* local table_type of _process_tabular_path
    confidence,     \* local confidence of _process_tabular_path
    mappings,       \* local mappings of _process_tabular_path
    clean_location, \* local clean_location of _process_tabular_path
    load_result,    \* local load_result of _process_tabular_path
    df,             \* rows of the loaded frame (None before the load)
    failed,         \* persistence collaborators that failed during the running call
    result,         \* the IngestResult returned by the call (None while running)
    raised,         \* the exception caught at the orchestrator boundary (None if none)
    calls,          \* collaborator and stage calls made by the running call, in order
    stages,         \* the stages the running call went through, in order
    llm,            \* settings.LLM_ENABLED and what the LLM service does in the running call
    observation,    \* local observation of _process_free_form_path
    targets,        \* local targets of _process_free_form_path
    resolve_call,   \* the arguments of a call of resolve_entity (None when there is none)
    resolve_return, \* what that call returned or raised (None before it ends)
    created,        \* the calls of create_new_entity so far, each with the ID it returned
    feedback,       \* the arguments of a call of the free-form analyzer (None when there is none)
    idx,            \* analyze_feedback_batch: the row of df_feedback the loop is at
    mention_embedding,      \* what embed_texts gives in resolve_entity for the mentions of the row
    targets_from_llm,       \* analyze_feedback_batch: local of the current row
    targets_from_embedding, \* analyze_feedback_batch: local of the current row
    top_targets,    \* analyze_feedback_batch: local of the row last finished
    all_targets,    \* analyze_feedback_batch: local all_targets, the value returned
    _embedding_model,   \* concepts.py: the module-level _embedding_model (None until it is loaded)
    model_loads,    \* the SentenceTransformer models built in the process so far
    catalog_loads,  \* the runs of load_concepts_catalog that returned a catalog in the process so far
    ingestion_calls,    \* the calls of process_tabular_text that ended in the process before the running one
    threads,        \* the position of each thread that calls init_embeddings or embed_texts
    normalize_call,     \* the arguments of a call of normalize_dataframe (None when there is none)
    normalize_return    \* what that call returned or raised (None before it ends)

vars == <<pc, text_content, fm_arg, frontmatter, clean_text, warnings, table_type,
          confidence, mappings, clean_location, load_result, df, failed, result, raised,
          calls, stages, llm, observation, targets, resolve_call, resolve_return,
          created, feedback, idx, mention_embedding, targets_from_llm, targets_from_embedding, top_targets,
          all_targets, _embedding_model, model_loads, catalog_loads, ingestion_calls, threads,
          normalize_call, normalize_return>>

\* A value that may be None is a sequence: None is the empty one and a
\* present value v is Some(v).
None == <<>>
Some(v) == <<v>>
\* "if x:" for an optional string
Truthy(x) == x # None /\ x # Some("")
\* "x or default" for an optional string
Or(x, default) == IF x = None \/ x = Some("") THEN default ELSE x[1]

\* a key the YAML mapping does not hold
Absent == "Absent"

(***************************************************************************)
(* Frontmatter                                                             *)
(***************************************************************************)
ContentTypes == { "text/csv", "application/json", "application/pdf" }

\* The YAML mappings a frontmatter block may hold: the top-level keys the
\* orchestrator reads, each present or not.
YamlMappings ==
    { d \in [ file_id : {Absent, "file-1"},
              region_id : {Absent, "region-1"},
              content_type : ContentTypes \cup {Absent},
              extraction_method : {Absent, "pdfplumber"} ] :
        /\ d.extraction_method # Absent => d.content_type = "application/pdf"
        /\ d.file_id = Absent => d.region_id # Absent }

NoYaml ==
    [ file_id |-> Absent, region_id |-> Absent, content_type |-> Absent,
      extraction_method |-> Absent ]

\* What the text after the frontmatter block holds.
Bodies == { "table", "empty_table", "unparseable", "too_many_rows" }

\* A text is described by what parse_frontmatter tests, in the order it tests it.
NoBlockTexts ==
    { [starts_with_delimiter |-> FALSE, closed |-> FALSE, yaml |-> "none",
       sections_are_mappings |-> FALSE, data |-> NoYaml, body |-> b] : b \in Bodies }

\* a block that is not closed, is not valid YAML, is not a mapping, or
\* holds a section that is not a mapping
BrokenBlockTexts ==
    { [starts_with_delimiter |-> TRUE, closed |-> FALSE, yaml |-> "none",
       sections_are_mappings |-> FALSE, data |-> NoYaml, body |-> "table"] }
    \cup
    { [starts_with_delimiter |-> TRUE, closed |-> TRUE, yaml |-> y,
       sections_are_mappings |-> FALSE, data |-> NoYaml, body |-> "table"] :
         y \in {"error", "scalar", "mapping"} }

BlockTexts ==
    { [starts_with_delimiter |-> TRUE, closed |-> TRUE, yaml |-> "mapping",
       sections_are_mappings |-> TRUE, data |-> d, body |-> b] :
         d \in YamlMappings, b \in Bodies }

Texts == NoBlockTexts \cup BrokenBlockTexts \cup BlockTexts

\* data.get(key, default) and data.get(key)
Get(value, default) == IF value = Absent THEN default ELSE value
GetOptional(value) == IF value = Absent THEN None ELSE Some(value)

FrontmatterData(data) ==
    [ file_id |-> Get(data.file_id, ""),
      region_id |-> Get(data.region_id, ""),
      original_content_type |-> GetOptional(data.content_type),
      extraction_method |-> GetOptional(data.extraction_method) ]

\* the text_content returned when no frontmatter is
OriginalText == "text_content"

\* parse_frontmatter with "data or {}" in place of the isinstance test: a
\* block that is not a mapping gives a frontmatter of defaults
parse_frontmatter_Lenient(text) ==
    IF ~text.starts_with_delimiter THEN <<None, OriginalText>>
    ELSE IF ~text.closed THEN <<None, OriginalText>>
    ELSE IF text.yaml = "error" THEN <<None, OriginalText>>
    ELSE <<Some(FrontmatterData(text.data)), text.body>>

\* parse_frontmatter: <<frontmatter or None, text without the block>>.  When
\* no frontmatter is returned the second component is the original text.
parse_frontmatter(text) ==
    IF ~text.starts_with_delimiter THEN <<None, OriginalText>>
    ELSE IF ~text.closed THEN <<None, OriginalText>>
    ELSE IF text.yaml = "error" THEN <<None, OriginalText>>
    ELSE IF text.yaml # "mapping" THEN <<None, OriginalText>>
    ELSE IF ~text.sections_are_mappings THEN <<None, OriginalText>>
    ELSE <<Some(FrontmatterData(text.data)), text.body>>

\* What a table parser finds in clean_text.  The text without its block
\* holds the body; the original text holds the body too when it has no
\* block, and otherwise the block's lines stand before the body and the
\* parsers may make anything of it.
CleanTextBodies(text, clean) ==
    IF clean # OriginalText THEN {clean}
    ELSE IF ~text.starts_with_delimiter THEN {text.body}
    ELSE Bodies

\* The pre-parsed frontmatter objects a caller may pass.
FrontmatterArgs == { Some(FrontmatterData(d)) : d \in YamlMappings }

Exception(type, msg) == [type |-> type, msg |-> msg]

(***************************************************************************)
(* Table loading                                                           *)
(***************************************************************************)
INGEST_MAX_ROWS == 200000

Loaded(rows) == [ok |-> TRUE, rows |-> rows, exc |-> None]
LoadError(e) == [ok |-> FALSE, rows |-> 0, exc |-> Some(e)]

\* Rows of the frame the parser of the declared format builds from the body;
\* -1 when the parser raises.
ParsedRows(body) ==
    CASE body = "table" -> 3
      [] body = "empty_table" -> 0
      [] body = "too_many_rows" -> INGEST_MAX_ROWS + 1
      [] OTHER -> -1

\* load_dataframe_from_text
load_dataframe_from_text(body, fm) ==
    LET content_type == Or(fm.original_content_type, "text/plain")
        rows ==
            IF content_type \in {"text/csv", "application/vnd.ms-excel"}
            THEN ParsedRows(body)
            ELSE IF content_type = "application/json"
            THEN ParsedRows(body)
            ELSE IF content_type \in {"application/pdf", "text/plain"}
                    /\ Truthy(fm.extraction_method)
            THEN 1
            ELSE \* _auto_detect_and_load: a frame of the whole text when nothing parses
                 IF ParsedRows(body) = -1 THEN 1 ELSE ParsedRows(body)
    IN  IF rows = -1
        THEN IF content_type = "application/json"
             THEN LoadError(Exception("ValueError", "No valid JSON records found"))
             ELSE LoadError(Exception("ParserError", "Error tokenizing data"))
        ELSE IF rows = 0
        THEN LoadError(Exception("ValueError",
                 "Failed to load DataFrame from text, content_type=" \o content_type))
        ELSE IF rows > INGEST_MAX_ROWS
        THEN LoadError(Exception("ValueError", "DataFrame exceeds maximum rows"))
        ELSE Loaded(rows)

(***************************************************************************)
(* Table classifier                                                        *)
(***************************************************************************)
\* catalog.table_types, in catalog order
TableTypeNames == <<"ATTENDANCE", "ASSESSMENT", "FEEDBACK">>

\* exp(mean similarity - max) of every table type, as a whole number of
\* units; the softmax score of type i is exp_scores[i] / Sum(exp_scores).
\* The winning scores are 0.4 exactly, 1/3 and 4/11 (ties), 0.39999, 0.40001,
\* 0.5 and 0.6.
ExpScores ==
    { <<4, 3, 3>>, <<3, 3, 3>>, <<4, 4, 3>>, <<30000, 39999, 30001>>,
      <<29999, 30000, 40001>>, <<2, 4, 2>>, <<1, 1, 3>> }

RECURSIVE SumTo(_, _)
SumTo(f, n) == IF n = 0 THEN 0 ELSE f[n] + SumTo(f, n - 1)

Fraction(num, den) == [num |-> num, den |-> den]
\* q < n/d, for positive denominators
FracLess(q, n, d) == q.num * d < n * q.den
\* q formatted with three decimals, as a number of thousandths
Thousandths(q) == (2000 * q.num + q.den) \div (2 * q.den)

\* max(normalized_scores, key=normalized_scores.get): the first key with the
\* greatest score
BestType(exp_scores) ==
    CHOOSE i \in DOMAIN exp_scores :
        /\ \A j \in DOMAIN exp_scores : exp_scores[j] <= exp_scores[i]
        /\ \A j \in DOMAIN exp_scores : j < i => exp_scores[j] < exp_scores[i]

\* "<=" in place of "<"
ClassifyThreshold_Inclusive(best_score) == ~FracLess(Fraction(4, 10), best_score.num, best_score.den)

ClassifyThreshold(best_score) == FracLess(best_score, 4, 10)

\* classify_table, for a non-empty frame: <<table_type, confidence>>
classify_table(exp_scores) ==
    LET best_type == BestType(exp_scores)
        best_score == Fraction(exp_scores[best_type],
                               SumTo(exp_scores, Len(TableTypeNames)))
    IN  IF ClassifyThreshold(best_score)
        THEN <<"FREE_FORM", best_score>>
        ELSE <<TableTypeNames[best_type], best_score>>

(***************************************************************************)
(* Column mapper                                                           *)
(***************************************************************************)
\* catalog.concepts, in catalog order
Concepts ==
    << [key |-> "student_id", expected_type |-> "string"],
       [key |-> "test_score", expected_type |-> "number"] >>

\* the columns of the loaded frame, in frame order
Columns == <<"student_id", "test_score">>

\* What the embedding and _infer_column_type give for a column: its
\* inferred type and its cosine similarity to every concept, in hundredths.
\* The best adjusted scores are 75 and 74, 55 and 54, 75 twice (a tie), and
\* 100 and 0 (clamped).
ColumnInputs ==
    { [dtype |-> "number", sims |-> <<45, 65>>],
      [dtype |-> "number", sims |-> <<45, 64>>],
      [dtype |-> "string", sims |-> <<50, 65>>],
      [dtype |-> "string", sims |-> <<49, 65>>],
      [dtype |-> "date", sims |-> <<90, 90>>],
      [dtype |-> "categorical", sims |-> <<98, 10>>] }

Max(a, b) == IF a >= b THEN a ELSE b
Min(a, b) == IF a <= b THEN a ELSE b

\* _adjust_score_by_type
_adjust_score_by_type(similarity, col_type, concept_type) ==
    LET adjusted ==
            IF col_type = "number" /\ concept_type = "number" THEN similarity + 10
            ELSE IF col_type = "date" /\ concept_type = "date" THEN similarity + 10
            ELSE IF col_type \in {"string", "categorical"}
                    /\ concept_type \in {"string", "categorical"} THEN similarity + 5
            ELSE IF col_type # concept_type THEN similarity - 15
            ELSE similarity
    IN  Max(0, Min(100, adjusted))

\* concept_scores.sort(key=score, reverse=True): a stable sort, so of two
\* concepts with one score the one earlier in the catalog stays first.
RECURSIVE SortDesc(_)
SortDesc(scores) ==
    IF scores = <<>> THEN <<>>
    ELSE LET i == CHOOSE k \in DOMAIN scores :
                      /\ \A j \in DOMAIN scores : scores[j][2] <= scores[k][2]
                      /\ \A j \in DOMAIN scores : j < k => scores[j][2] < scores[k][2]
             rest == [j \in 1..(Len(scores) - 1) |->
                          IF j < i THEN scores[j] ELSE scores[j + 1]]
         IN  <<scores[i]>> \o SortDesc(rest)

\* ">" in place of ">="
MappingStatus_Strict(best_score) ==
    IF best_score > 75 THEN "AUTO"
    ELSE IF best_score > 55 THEN "LOW_CONFIDENCE"
    ELSE "UNKNOWN"

\* the status of a best adjusted score
MappingStatus(best_score) ==
    IF best_score >= 75 THEN "AUTO"
    ELSE IF best_score >= 55 THEN "LOW_CONFIDENCE"
    ELSE "UNKNOWN"

\* _map_single_column, given the column's inferred type and its similarity to
\* every concept
_map_single_column(col, col_dtype, sims) ==
    LET concept_scores ==
            [c \in DOMAIN Concepts |->
                <<Concepts[c].key,
                  _adjust_score_by_type(sims[c], col_dtype, Concepts[c].expected_type)>>]
        sorted == SortDesc(concept_scores)
        top_candidates == SubSeq(sorted, 1, Min(3, Len(sorted)))
        best_concept == top_candidates[1][1]
        best_score == top_candidates[1][2]
        status == MappingStatus(best_score)
    IN  [ source_column |-> col,
          concept_key |-> IF status = "UNKNOWN" THEN None ELSE Some(best_concept),
          score |-> best_score,
          status |-> status,
          candidates |-> top_candidates ]

\* map_columns, for a non-empty frame
map_columns(inputs) ==
    [c \in DOMAIN Columns |->
        _map_single_column(Columns[c], inputs[c].dtype, inputs[c].sims)]

(***************************************************************************)
(* Entity resolver: analysis/entity_resolver.py                            *)
(*                                                                         *)
(* A string is a sequence of characters; a character is a record of its    *)
(* script, its letter (Cyrillic letters by their transliteration) and its  *)
(* case.  A dict is the sequence of its items in insertion order.          *)
(***************************************************************************)
Char(script, letter, upper) == [script |-> script, letter |-> letter, upper |-> upper]
Cyr(word) == [i \in DOMAIN word |-> Char("cyrillic", word[i], FALSE)]
Lat(word) == [i \in DOMAIN word |-> Char("latin", word[i], FALSE)]
Digits(word) == [i \in DOMAIN word |-> Char("digit", word[i], FALSE)]
Cap(word) == [word EXCEPT ![1] = Char(word[1].script, word[1].letter, TRUE)]
Sp == <<Char("space", " ", FALSE)>>
Dot == <<Char("punct", ".", FALSE)>>

\* str.lower()
Lower(str) == [i \in DOMAIN str |-> Char(str[i].script, str[i].letter, FALSE)]

IsNotPeriod(c) == c # Dot[1]
IsSpace(c) == c.script = "space"

\* re.sub(r"\s+", " ", s)
RECURSIVE CollapseSpaces(_)
CollapseSpaces(str) ==
    IF Len(str) < 2 THEN str
    ELSE IF IsSpace(str[1]) /\ IsSpace(str[2]) THEN CollapseSpaces(Tail(str))
    ELSE <<str[1]>> \o CollapseSpaces(Tail(str))

\* str.strip()
RECURSIVE Strip(_)
Strip(str) ==
    IF str = <<>> THEN str
    ELSE IF IsSpace(str[1]) THEN Strip(Tail(str))
    ELSE IF IsSpace(str[Len(str)]) THEN Strip(SubSeq(str, 1, Len(str) - 1))
    ELSE str

normalize_name(name) ==
    IF name = <<>> THEN <<>>
    ELSE Strip(CollapseSpaces(SelectSeq(Lower(name), IsNotPeriod)))

\* str.split(): the maximal runs of characters that are not whitespace
RECURSIVE Split(_, _)
Split(str, part) ==
    IF str = <<>> THEN (IF part = <<>> THEN <<>> ELSE <<part>>)
    ELSE IF IsSpace(str[1])
         THEN (IF part = <<>> THEN <<>> ELSE <<part>>) \o Split(Tail(str), <<>>)
         ELSE Split(Tail(str), Append(part, str[1]))

\* " ".join(parts)
RECURSIVE Join(_)
Join(parts) ==
    IF parts = <<>> THEN <<>>
    ELSE IF Len(parts) = 1 THEN parts[1]
    ELSE parts[1] \o Sp \o Join(Tail(parts))

\* dict operations
Keys(dict) == { dict[i][1] : i \in DOMAIN dict }
HasKey(dict, key) == \E i \in DOMAIN dict : dict[i][1] = key
Lookup(dict, key) == dict[CHOOSE i \in DOMAIN dict : dict[i][1] = key][2]
DictGet(dict, key, default) == IF HasKey(dict, key) THEN Lookup(dict, key) ELSE default

\* the rows of russian_names whose initial a modelled value can have
russian_names ==
    << <<Cyr(<<"i">>), << Cyr(<<"i", "v", "a", "n">>), Cyr(<<"i", "g", "o", "r", "soft">>),
                          Cyr(<<"i", "l", "soft", "ya">>),
                          Cyr(<<"i", "r", "i", "n", "a">>) >> >>,
       <<Cyr(<<"p">>), << Cyr(<<"p", "a", "v", "e", "l">>), Cyr(<<"p", "e", "t", "r">>),
                          Cyr(<<"p", "o", "l", "i", "n", "a">>) >> >> >>

\* for first_name in first_names[:5]
MaxCandidates == 5

\* initial_pattern = ^[а-яa-z]\.?$ with re.IGNORECASE
initial_pattern(part) ==
    /\ Len(part) \in {1, 2}
    /\ part[1].script \in {"cyrillic", "latin"}
    /\ Len(part) = 2 => part[2] = Dot[1]

\* expand_initials that keeps the last name as written: f"{first_name} {last_name}"
expand_initials_RawLastName(name, region_id) ==
    LET parts == Split(name, <<>>)
    IN  IF parts = <<>> THEN <<>>
        ELSE IF Len(parts) >= 2 /\ initial_pattern(parts[1])
        THEN LET initial == <<normalize_name(parts[1])[1]>>
                 last_name == Join(Tail(parts))
                 first_names == DictGet(russian_names, initial, <<>>)
                 taken == SubSeq(first_names, 1, Min(MaxCandidates, Len(first_names)))
             IN  [i \in DOMAIN taken |-> taken[i] \o Sp \o last_name]
        ELSE <<>>

expand_initials(name, region_id) ==
    LET parts == Split(name, <<>>)
    IN  IF parts = <<>> THEN <<>>
        ELSE IF Len(parts) >= 2 /\ initial_pattern(parts[1])
        THEN LET initial == <<normalize_name(parts[1])[1]>>
                 last_name == Join(Tail(parts))
                 first_names == DictGet(russian_names, initial, <<>>)
                 taken == SubSeq(first_names, 1, Min(MaxCandidates, Len(first_names)))
             IN  [i \in DOMAIN taken |-> taken[i] \o Sp \o normalize_name(last_name)]
        ELSE <<>>

\* Levenshtein.distance, row by row
RECURSIVE LevRow(_, _, _, _)
LevRow(row, prev, c, b) ==
    IF Len(row) = Len(b) + 1 THEN row
    ELSE LET j == Len(row)
             cost == IF b[j] = c THEN 0 ELSE 1
         IN  LevRow(Append(row, Min(Min(prev[j + 1] + 1, row[j] + 1), prev[j] + cost)),
                    prev, c, b)

RECURSIVE LevRows(_, _, _, _)
LevRows(prev, a, i, b) ==
    IF i > Len(a) THEN prev[Len(b) + 1]
    ELSE LevRows(LevRow(<<prev[1] + 1>>, prev, a[i], b), a, i + 1, b)

levenshtein_distance(a, b) == LevRows([j \in 1..(Len(b) + 1) |-> j - 1], a, 1, b)

\* similarity = 1.0 - (distance / max_len), for max_len > 0
Similarity(a, b) ==
    LET max_len == Max(Len(a), Len(b))
    IN  Fraction(max_len - levenshtein_distance(a, b), max_len)

\* q >= hundredths / 100, and q > r
FracAtLeast(q, hundredths) == q.num * 100 >= hundredths * q.den
FracGreater(q, r) == q.num * r.den > r.num * q.den

\* the loop of _fuzzy_match from item i on, with best_match and best_score
RECURSIVE FuzzyLoop(_, _, _, _, _, _)
FuzzyLoop(i, best_match, best_score, normalized_name, name_cache, threshold) ==
    IF i > Len(name_cache) THEN best_match
    ELSE LET cached_name == name_cache[i][1]
             entity_id == name_cache[i][2]
             max_len == Max(Len(normalized_name), Len(cached_name))
             similarity == Similarity(normalized_name, cached_name)
         IN  IF max_len = 0
             THEN FuzzyLoop(i + 1, best_match, best_score, normalized_name, name_cache,
                            threshold)
             ELSE IF FracAtLeast(similarity, threshold) /\ FracGreater(similarity, best_score)
             THEN FuzzyLoop(i + 1, Some(<<entity_id, similarity>>), similarity,
                            normalized_name, name_cache, threshold)
             ELSE FuzzyLoop(i + 1, best_match, best_score, normalized_name, name_cache,
                            threshold)

\* _fuzzy_match that returns before its loop
_fuzzy_match_Skipped(normalized_name, name_cache, threshold) == None

\* _fuzzy_match without the test "similarity >= threshold"
_fuzzy_match_NoThreshold(normalized_name, name_cache, threshold) ==
    FuzzyLoop(1, None, Fraction(0, 1), normalized_name, name_cache, 0)

_fuzzy_match(normalized_name, name_cache, threshold) ==
    FuzzyLoop(1, None, Fraction(0, 1), normalized_name, name_cache, threshold)

\* the loop of _embedding_match from item i on; similarities[i] is the cosine
\* similarity, in hundredths, of the source embedding and the i-th cached one
RECURSIVE EmbeddingLoop(_, _, _, _, _, _)
EmbeddingLoop(i, best_match, best_score, embedding_cache, similarities, threshold) ==
    IF i > Len(embedding_cache) THEN best_match
    ELSE LET entity_id == embedding_cache[i]
             similarity == Fraction(similarities[i], 100)
         IN  IF FracAtLeast(similarity, threshold) /\ FracGreater(similarity, best_score)
             THEN EmbeddingLoop(i + 1, Some(<<entity_id, similarity>>), similarity,
                                embedding_cache, similarities, threshold)
             ELSE EmbeddingLoop(i + 1, best_match, best_score, embedding_cache,
                                similarities, threshold)

_embedding_match(source_value, embedding_cache, entity_names, threshold, similarities) ==
    IF embedding_cache = <<>> THEN None
    ELSE EmbeddingLoop(1, None, Fraction(0, 1), embedding_cache, similarities, threshold)

EntityMatch(entity_id, entity_name, entity_type, similarity_score, match_method, conf, source_value) ==
    [ entity_id |-> entity_id, entity_name |-> entity_name, entity_type |-> entity_type,
      similarity_score |-> similarity_score, match_method |-> match_method,
      confidence |-> conf, source_value |-> source_value ]

\* EntityCache: the dicts of the six entity types and entity_names
EntityCache(teachers, teacher_ids, teacher_embeddings, students, entity_names) ==
    [ teachers |-> teachers, teacher_ids |-> teacher_ids,
      teacher_embeddings |-> teacher_embeddings,
      students |-> students, student_ids |-> <<>>, student_embeddings |-> <<>>,
      parents |-> <<>>, parent_ids |-> <<>>, parent_embeddings |-> <<>>,
      regions |-> <<>>, region_ids |-> <<>>, region_embeddings |-> <<>>,
      subjects |-> <<>>, subject_ids |-> <<>>, subject_embeddings |-> <<>>,
      schools |-> <<>>, school_ids |-> <<>>, school_embeddings |-> <<>>,
      entity_names |-> entity_names ]

\* <<name_cache, id_cache, embedding_cache>> of an entity type
_get_cache_dicts(cache, entity_type) ==
    CASE entity_type = "teacher" ->
             <<cache.teachers, cache.teacher_ids, cache.teacher_embeddings>>
      [] entity_type = "student" ->
             <<cache.students, cache.student_ids, cache.student_embeddings>>
      [] entity_type = "parent" ->
             <<cache.parents, cache.parent_ids, cache.parent_embeddings>>
      [] entity_type = "region" ->
             <<cache.regions, cache.region_ids, cache.region_embeddings>>
      [] entity_type = "subject" ->
             <<cache.subjects, cache.subject_ids, cache.subject_embeddings>>
      [] entity_type = "school" ->
             <<cache.schools, cache.school_ids, cache.school_embeddings>>
      [] OTHER -> << <<>>, <<>>, <<>> >>

Returns(match) == [match |-> Some(match), raised |-> None]
Raises(e) == [match |-> None, raised |-> Some(e)]

\* the candidates of expand_initials that are keys of name_cache, in order
CandidatesInCache(candidates, name_cache) ==
    SelectSeq(candidates, LAMBDA candidate : HasKey(name_cache, candidate))

\* Steps 2 to 7 of resolve_entity, for a source value that is not empty;
\* embedded is what embed_texts gives when it is called: None if it raises,
\* else the similarities of the source value and the cached embeddings
ResolveByName(source_value, entity_type, region_id, cache, threshold_fuzzy, threshold_embedding, embedded) ==
    LET dicts == _get_cache_dicts(cache, entity_type)
        name_cache == dicts[1]
        embedding_cache == dicts[3]
        Name(canonical_id) == DictGet(cache.entity_names, canonical_id, <<>>)
        normalized == normalize_name(source_value)
        best_fuzzy_match == _fuzzy_match(normalized, name_cache, threshold_fuzzy)
        candidates == expand_initials(source_value, region_id)
        hits == CandidatesInCache(candidates, name_cache)
        best_embedding_match ==
            _embedding_match(source_value, embedding_cache, cache.entity_names,
                             threshold_embedding, embedded[1])
        New == Returns(EntityMatch("", source_value, entity_type, Fraction(0, 100), "NEW",
                                   "LOW", source_value))
    IN  \* Step 3: name exact match
        IF HasKey(name_cache, normalized)
        THEN Returns(EntityMatch(Lookup(name_cache, normalized),
                                 Name(Lookup(name_cache, normalized)), entity_type,
                                 Fraction(100, 100), "NAME_EXACT", "HIGH", source_value))
        \* Step 4: fuzzy matching
        ELSE IF best_fuzzy_match # None
        THEN Returns(EntityMatch(best_fuzzy_match[1][1], Name(best_fuzzy_match[1][1]),
                                 entity_type, best_fuzzy_match[1][2], "FUZZY",
                                 IF FracAtLeast(best_fuzzy_match[1][2], 85)
                                 THEN "HIGH" ELSE "MEDIUM",
                                 source_value))
        \* Step 5: expanded initials
        ELSE IF hits # <<>>
        THEN Returns(EntityMatch(Lookup(name_cache, hits[1]),
                                 Name(Lookup(name_cache, hits[1])), entity_type,
                                 Fraction(80, 100), "FUZZY", "MEDIUM", source_value))
        \* Step 6: embedding-based matching
        ELSE IF embedding_cache # <<>>
        THEN IF embedded = None
             THEN Raises(Exception("RuntimeError", "Failed to generate embeddings"))
             ELSE IF best_embedding_match # None
             THEN Returns(EntityMatch(best_embedding_match[1][1],
                                      Name(best_embedding_match[1][1]), entity_type,
                                      best_embedding_match[1][2], "EMBEDDING",
                                      IF FracAtLeast(best_embedding_match[1][2], 75)
                                      THEN "HIGH" ELSE "MEDIUM",
                                      source_value))
             ELSE New
        \* Step 7: no match
        ELSE New

\* the result of Step 1, the ID exact match
IdExactMatch(source_value, entity_type, cache, id_cache) ==
    Returns(EntityMatch(Lookup(id_cache, source_value),
                        DictGet(cache.entity_names, Lookup(id_cache, source_value), <<>>),
                        entity_type, Fraction(100, 100), "ID_EXACT", "HIGH", source_value))

EmptyMatch(source_value, entity_type) ==
    Returns(EntityMatch("", <<>>, entity_type, Fraction(0, 100), "NEW", "LOW",
                        source_value))

\* resolve_entity with the exact name match tried before the ID match
resolve_entity_NameFirst(source_value, entity_type, region_id, cache, value_type, threshold_fuzzy, threshold_embedding, embedded) ==
    LET dicts == _get_cache_dicts(cache, entity_type)
        ByName == ResolveByName(source_value, entity_type, region_id, cache,
                                threshold_fuzzy, threshold_embedding, embedded)
    IN  IF source_value = <<>> THEN EmptyMatch(source_value, entity_type)
        ELSE IF HasKey(dicts[1], normalize_name(source_value)) THEN ByName
        ELSE IF value_type = "id" /\ HasKey(dicts[2], source_value)
        THEN IdExactMatch(source_value, entity_type, cache, dicts[2])
        ELSE ByName

\* resolve_entity without the test of an empty source_value
resolve_entity_NoEmptyCheck(source_value, entity_type, region_id, cache, value_type, threshold_fuzzy, threshold_embedding, embedded) ==
    LET dicts == _get_cache_dicts(cache, entity_type)
        id_cache == dicts[2]
    IN  IF value_type = "id" /\ HasKey(id_cache, source_value)
        THEN IdExactMatch(source_value, entity_type, cache, id_cache)
        ELSE ResolveByName(source_value, entity_type, region_id, cache, threshold_fuzzy,
                           threshold_embedding, embedded)

resolve_entity(source_value, entity_type, region_id, cache, value_type, threshold_fuzzy, threshold_embedding, embedded) ==
    LET dicts == _get_cache_dicts(cache, entity_type)
        id_cache == dicts[2]
    IN  IF source_value = <<>> THEN EmptyMatch(source_value, entity_type)
        \* Step 1: ID exact match
        ELSE IF value_type = "id" /\ HasKey(id_cache, source_value)
        THEN IdExactMatch(source_value, entity_type, cache, id_cache)
        ELSE ResolveByName(source_value, entity_type, region_id, cache, threshold_fuzzy,
                           threshold_embedding, embedded)

(***************************************************************************)
(* Ingestion orchestrator: process_tabular_text                            *)
(***************************************************************************)
IngestResult(file_id, status, ttype, rows_loaded, location, bytes, cache_hit, error, warns) ==
    [ file_id |-> file_id, status |-> status, table_type |-> ttype,
      rows_loaded |-> rows_loaded, clean_location |-> location,
      bytes_processed |-> bytes, cache_hit |-> cache_hit,
      error_message |-> error, warnings |-> warns ]

\* the stage a position of the call belongs to
Stage(p) ==
    CASE p \in {"START", "PARSE_METADATA", "ROUTE", "DONE"} -> p
      [] p \in {"t_load", "t_catalog", "t_classify", "t_map", "t_normalize",
                "t_write_clean", "t_staging", "t_merge", "t_dims", "t_return"}
            -> "TABULAR_PATH"
      [] OTHER -> "FREE_FORM_PATH"

\* the except clause with "warnings=[]"
FailedResult_NoWarnings(e, fm, warns) ==
    IngestResult(IF fm # None THEN fm[1].file_id ELSE "unknown", "FAILED", None, None,
                 None, None, None, Some(e.type \o ": " \o e.msg), <<>>)

\* the except clause with the table type of the call so far
FailedResult_KeepsTableType(e, fm, warns) ==
    IngestResult(IF fm # None THEN fm[1].file_id ELSE "unknown", "FAILED", table_type, None,
                 None, None, None, Some(e.type \o ": " \o e.msg), warns)

\* the except clause of process_tabular_text: the result returned for an
\* exception e
FailedResult(e, fm, warns) ==
    IngestResult(IF fm # None THEN fm[1].file_id ELSE "unknown", "FAILED", None, None,
                 None, None, None, Some(e.type \o ": " \o e.msg), warns)

\* the call goes on to position p
Goto(p) ==
    /\ pc' = p
    /\ stages' = IF Stage(p) # Stage(pc) THEN Append(stages, Stage(p)) ELSE stages

\* an exception e raised at the current position reaches the except clause
Raise(e) ==
    /\ raised' = Some(e)
    /\ result' = Some(FailedResult(e, frontmatter, warnings))
    /\ Goto("DONE")

Locals == <<frontmatter, clean_text, warnings, df, table_type, confidence, mappings,
            clean_location, load_result>>
Args == <<text_content, fm_arg>>
ResolverVars == <<resolve_call, resolve_return, created>>
AnalysisVars == <<llm, observation, targets>>
FeedbackVars == <<feedback, idx, mention_embedding, targets_from_llm, targets_from_embedding,
                  top_targets, all_targets>>

ProcessVars == <<_embedding_model, model_loads, catalog_loads, ingestion_calls, threads>>
NormalizeVars == <<normalize_call, normalize_return>>

\* a process that has loaded nothing yet
NewProcess ==
    /\ _embedding_model = None
    /\ model_loads = 0
    /\ catalog_loads = 0
    /\ ingestion_calls = 0

\* no call of normalize_dataframe
NoNormalize ==
    /\ normalize_call = None
    /\ normalize_return = None

\* no call of analyze_feedback_batch is running
NoFeedback ==
    /\ feedback = None
    /\ idx = 0
    /\ mention_embedding = None
    /\ targets_from_llm = <<>>
    /\ targets_from_embedding = <<>>
    /\ top_targets = <<>>
    /\ all_targets = <<>>

\* the inputs of a call: the text, and the pre-parsed frontmatter if any
CallInputs ==
    { <<t, None>> : t \in Texts }
    \cup
    { <<t, f>> : t \in NoBlockTexts \cup BrokenBlockTexts, f \in FrontmatterArgs }
    \cup
    { p \in BlockTexts \X FrontmatterArgs : Some(FrontmatterData(p[1].data)) = p[2] }

Enter(input) ==
    /\ text_content = input[1]
    /\ fm_arg = input[2]
    /\ pc = "START"
    /\ frontmatter = fm_arg
    /\ clean_text = None
    /\ warnings = <<>>
    /\ df = None
    /\ table_type = None
    /\ confidence = None
    /\ mappings = None
    /\ clean_location = None
    /\ load_result = None
    /\ failed = {}
    /\ result = None
    /\ raised = None
    /\ calls = <<>>
    /\ stages = <<"START">>
    /\ llm = None
    /\ observation = None
    /\ targets = <<>>
    /\ created = <<>>
    /\ NoFeedback
    /\ NewProcess
    /\ threads = <<>>
    /\ NoNormalize
    /\ resolve_call = None
    /\ resolve_return = None

Init == \E input \in CallInputs : Enter(input)

\* Start that skips the parse step when the frontmatter is supplied
Start_SkipParse ==
    /\ pc = "START"
    /\ warnings' = <<>>
    /\ IF fm_arg # None
       THEN /\ clean_text' = Some(text_content.body)
            /\ Goto("ROUTE")
       ELSE /\ Goto("PARSE_METADATA")
            /\ UNCHANGED clean_text
    /\ UNCHANGED <<Args, ProcessVars, NormalizeVars, ResolverVars, AnalysisVars, FeedbackVars, frontmatter, df, table_type, confidence, mappings,
                   clean_location, load_result, failed, result, raised, calls>>

\* start_time = time.time(); warnings = []
Start ==
    /\ pc = "START"
    /\ warnings' = <<>>
    /\ Goto("PARSE_METADATA")
    /\ UNCHANGED <<Args, ProcessVars, NormalizeVars, ResolverVars, AnalysisVars, FeedbackVars, frontmatter, clean_text, df, table_type, confidence, mappings,
                   clean_location, load_result, failed, result, raised, calls>>

\* Step 1: parse the frontmatter if it was not supplied
ParseMetadata ==
    /\ pc = "PARSE_METADATA"
    /\ calls' = Append(calls, "parse_frontmatter")
    /\ LET parsed == parse_frontmatter(text_content)
       IN  IF fm_arg = None /\ parsed[1] = None
           THEN /\ Raise(Exception("ValueError", "No frontmatter found in text content"))
                /\ UNCHANGED <<frontmatter, clean_text>>
           ELSE /\ frontmatter' = IF fm_arg = None THEN parsed[1] ELSE fm_arg
                /\ \E body \in CleanTextBodies(text_content, parsed[2]) :
                       clean_text' = Some(body)
                /\ Goto("ROUTE")
                /\ UNCHANGED <<result, raised>>
    /\ UNCHANGED <<Args, ProcessVars, NormalizeVars, ResolverVars, AnalysisVars, FeedbackVars, warnings, df, table_type, confidence, mappings, clean_location,
                   load_result, failed>>

\* _is_tabular_content_type
_is_tabular_content_type(content_type) ==
    \/ content_type \in { "text/csv", "text/tab-separated-values",
                          "application/vnd.ms-excel",
                          "application/vnd.openxmlformats-officedocument.spreadsheetml.sheet" }
    \/ content_type = "application/json"

\* Step 2: detect the content type and route
Route ==
    /\ pc = "ROUTE"
    /\ LET content_type == Or(frontmatter[1].original_content_type, "text/plain")
       IN  IF _is_tabular_content_type(content_type)
           THEN Goto("t_load")
           ELSE Goto("f_cache")
    /\ UNCHANGED <<Args, ProcessVars, NormalizeVars, ResolverVars, AnalysisVars, FeedbackVars, Locals, failed, result, raised, calls>>

(***************************************************************************)
(* _process_tabular_path                                                   *)
(***************************************************************************)
\* what the collaborators raise when they fail
CatalogErrors == { Exception("FileNotFoundError", "Concepts catalog not found") }
EmbeddingErrors == { Exception("RuntimeError", "Failed to generate embeddings") }
NormalizeErrors == { Exception("KeyError", "source column") }
StorageErrors == { Exception("OSError", "clean layer unavailable") }
WarehouseErrors == { Exception("GoogleAPIError", "warehouse unavailable") }
\* LLMClient() raises when the client cannot be built
AnalysisErrors == { Exception("OpenAIError", "The api_key client option must be set") }

\* Step 1: load the frame
LoadDataframe ==
    /\ pc = "t_load"
    /\ calls' = Append(calls, "load_dataframe_from_text")
    /\ LET loaded == load_dataframe_from_text(clean_text[1], frontmatter[1])
       IN  IF loaded.ok
           THEN /\ df' = Some(loaded.rows)
                /\ Goto("t_catalog")
                /\ UNCHANGED <<result, raised>>
           ELSE /\ Raise(loaded.exc[1])
                /\ UNCHANGED df
    /\ UNCHANGED <<Args, ProcessVars, NormalizeVars, ResolverVars, AnalysisVars, FeedbackVars, frontmatter, clean_text, warnings, table_type, confidence,
                   mappings, clean_location, load_result, failed>>

\* init_embeddings, as embed_texts calls it when _embedding_model is None: the
\* model is built and kept in the module
ModelLoaded ==
    IF _embedding_model = None
    THEN /\ _embedding_model' = Some("SentenceTransformer")
         /\ model_loads' = model_loads + 1
    ELSE UNCHANGED <<_embedding_model, model_loads>>

\* Step 2: catalog = load_concepts_catalog(settings.CONCEPT_CATALOG_PATH).
\* The function reads the YAML file and embeds the anchors and the synonyms
\* each time it is called; nothing of it is kept in the module.
LoadCatalog ==
    /\ pc = "t_catalog"
    /\ calls' = Append(calls, "load_concepts_catalog")
    /\ \/ /\ Goto("t_classify")
          /\ ModelLoaded
          /\ catalog_loads' = catalog_loads + 1
          /\ UNCHANGED <<result, raised>>
       \/ /\ \E e \in CatalogErrors : Raise(e)
          /\ UNCHANGED <<_embedding_model, model_loads, catalog_loads>>
       \/ /\ \E e \in EmbeddingErrors : Raise(e)
          \* SentenceTransformer() raises, or encode() raises with the model built
          /\ \/ _embedding_model = None /\ UNCHANGED <<_embedding_model, model_loads>>
             \/ ModelLoaded
          /\ UNCHANGED catalog_loads
    /\ UNCHANGED <<Args, NormalizeVars, ResolverVars, AnalysisVars, FeedbackVars, Locals, failed,
                   ingestion_calls, threads>>

\* "if confidence < 0.3"
LowConfidence_Lower(conf) == FracLess(conf, 3, 10)

\* if confidence < 0.4
LowConfidence(conf) == FracLess(conf, 4, 10)

\* Step 2: classify, and treat a low confidence as FREE_FORM
ClassifyTable ==
    /\ pc = "t_classify"
    /\ calls' = Append(calls, "classify_table")
    /\ \/ \E exp_scores \in ExpScores :
            LET classified == classify_table(exp_scores)
            IN  /\ table_type' = Some(classified[1])
                /\ confidence' = Some(classified[2])
                /\ IF LowConfidence(classified[2])
                   THEN /\ warnings' = Append(warnings,
                              "Low classification confidence: 0."
                                  \o ToString(Thousandths(classified[2])))
                        /\ Goto("f_cache")
                   ELSE /\ warnings' = warnings
                        /\ Goto("t_map")
                /\ UNCHANGED <<result, raised>>
       \/ /\ \E e \in EmbeddingErrors : Raise(e)
          /\ UNCHANGED <<table_type, confidence, warnings>>
    /\ UNCHANGED <<Args, ProcessVars, NormalizeVars, ResolverVars, AnalysisVars, FeedbackVars, frontmatter, clean_text, df, mappings, clean_location,
                   load_result, failed>>

\* what map_columns returns, over the frames' columns
ColumnMappings == { map_columns(inputs) : inputs \in [DOMAIN Columns -> ColumnInputs] }

RECURSIVE CountAuto(_, _)
CountAuto(ms, n) ==
    IF n = 0 THEN 0
    ELSE (IF ms[n].status = "AUTO" THEN 1 ELSE 0) + CountAuto(ms, n - 1)

\* Step 3: map the columns, and warn when fewer than two are AUTO
MapColumns ==
    /\ pc = "t_map"
    /\ calls' = Append(calls, "map_columns")
    /\ \/ \E mapped \in ColumnMappings :
            LET auto_mappings == CountAuto(mapped, Len(mapped))
            IN  /\ mappings' = Some(mapped)
                /\ warnings' =
                       IF auto_mappings < 2
                       THEN Append(warnings, "Only " \o ToString(auto_mappings)
                                \o " AUTO mappings found, data quality may be low")
                       ELSE warnings
                /\ Goto("t_normalize")
                /\ UNCHANGED <<result, raised>>
       \/ /\ \E e \in EmbeddingErrors : Raise(e)
          /\ UNCHANGED <<mappings, warnings>>
    /\ UNCHANGED <<Args, ProcessVars, NormalizeVars, ResolverVars, AnalysisVars, FeedbackVars, frontmatter, clean_text, df, table_type, confidence,
                   clean_location, load_result, failed>>

\* Step 4: normalize_dataframe (the frame keeps its rows)
Normalize ==
    /\ pc = "t_normalize"
    /\ calls' = Append(calls, "normalize_dataframe")
    /\ \/ /\ Goto("t_write_clean")
          /\ UNCHANGED <<result, raised>>
       \/ \E e \in NormalizeErrors : Raise(e)
    /\ UNCHANGED <<Args, ProcessVars, NormalizeVars, ResolverVars, AnalysisVars, FeedbackVars, Locals, failed>>

\* WriteClean without "if clean_location:": Step 6 follows a failed write too
WriteClean_NoGate ==
    /\ pc = "t_write_clean"
    /\ calls' = Append(calls, "write_clean_parquet")
    /\ \/ /\ clean_location' =
                 IF df[1] = 0 THEN Some("")
                 ELSE Some("clean/" \o table_type[1] \o "/" \o frontmatter[1].file_id)
          /\ UNCHANGED <<warnings, failed>>
       \/ \E e \in StorageErrors :
            /\ clean_location' = None
            /\ warnings' = Append(warnings, "Clean layer write failed: " \o e.msg)
            /\ failed' = failed \cup {"write_clean_parquet"}
    /\ Goto("t_staging")
    /\ UNCHANGED <<Args, ProcessVars, NormalizeVars, ResolverVars, AnalysisVars, FeedbackVars, frontmatter, clean_text, df, table_type, confidence, mappings,
                   load_result, result, raised>>

\* WriteClean without its try/except: a failed write raises
WriteClean_Raises ==
    /\ pc = "t_write_clean"
    /\ calls' = Append(calls, "write_clean_parquet")
    /\ \/ /\ clean_location' =
                 Some("clean/" \o table_type[1] \o "/" \o frontmatter[1].file_id)
          /\ Goto("t_staging")
          /\ UNCHANGED <<failed, result, raised>>
       \/ \E e \in StorageErrors :
            /\ failed' = failed \cup {"write_clean_parquet"}
            /\ Raise(e)
            /\ UNCHANGED clean_location
    /\ UNCHANGED <<Args, ProcessVars, NormalizeVars, ResolverVars, AnalysisVars, FeedbackVars, frontmatter, clean_text, warnings, df, table_type, confidence,
                   mappings, load_result>>

\* Step 5: write the clean layer; a failure is a warning
WriteClean ==
    /\ pc = "t_write_clean"
    /\ calls' = Append(calls, "write_clean_parquet")
    /\ \/ /\ clean_location' =
                 IF df[1] = 0 THEN Some("")
                 ELSE Some("clean/" \o table_type[1] \o "/" \o frontmatter[1].file_id)
          /\ UNCHANGED <<warnings, failed>>
       \/ \E e \in StorageErrors :
            /\ clean_location' = None
            /\ warnings' = Append(warnings, "Clean layer write failed: " \o e.msg)
            /\ failed' = failed \cup {"write_clean_parquet"}
    /\ IF Truthy(clean_location') THEN Goto("t_staging") ELSE Goto("t_return")
    /\ UNCHANGED <<Args, ProcessVars, NormalizeVars, ResolverVars, AnalysisVars, FeedbackVars, frontmatter, clean_text, df, table_type, confidence, mappings,
                   load_result, result, raised>>

\* Step 6: DwhClient() and load_parquet_to_staging; a failure is a warning
LoadStaging ==
    /\ pc = "t_staging"
    /\ calls' = Append(calls, "load_parquet_to_staging")
    /\ \/ /\ load_result' = Some([rows_loaded |-> df[1], bytes_processed |-> 1024,
                                  cache_hit |-> FALSE])
          /\ Goto("t_merge")
          /\ UNCHANGED <<warnings, failed>>
       \/ \E e \in WarehouseErrors :
            /\ warnings' = Append(warnings, "BigQuery load failed: " \o e.msg)
            /\ failed' = failed \cup {"load_parquet_to_staging"}
            /\ Goto("t_return")
            /\ UNCHANGED load_result
    /\ UNCHANGED <<Args, ProcessVars, NormalizeVars, ResolverVars, AnalysisVars, FeedbackVars, frontmatter, clean_text, df, table_type, confidence, mappings,
                   clean_location, result, raised>>

\* merge_staging_to_core; a failure is a warning
MergeStaging ==
    /\ pc = "t_merge"
    /\ calls' = Append(calls, "merge_staging_to_core")
    /\ \/ /\ Goto("t_dims")
          /\ UNCHANGED <<warnings, failed>>
       \/ \E e \in WarehouseErrors :
            /\ warnings' = Append(warnings, "BigQuery load failed: " \o e.msg)
            /\ failed' = failed \cup {"merge_staging_to_core"}
            /\ Goto("t_return")
    /\ UNCHANGED <<Args, ProcessVars, NormalizeVars, ResolverVars, AnalysisVars, FeedbackVars, frontmatter, clean_text, df, table_type, confidence, mappings,
                   clean_location, load_result, result, raised>>

\* the dimension upserts; a failure is logged and nothing else
SyncDimensions ==
    /\ pc = "t_dims"
    /\ calls' = Append(calls, "upsert_dimensions")
    /\ \/ UNCHANGED failed
       \/ failed' = failed \cup {"upsert_dimensions"}
    /\ Goto("t_return")
    /\ UNCHANGED <<Args, ProcessVars, NormalizeVars, ResolverVars, AnalysisVars, FeedbackVars, Locals, result, raised>>

\* return IngestResult(status="INGESTED", ...)
ReturnTabular ==
    /\ pc = "t_return"
    /\ result' = Some(IngestResult(frontmatter[1].file_id, "INGESTED", table_type, df,
                     clean_location,
                     IF load_result # None THEN Some(load_result[1].bytes_processed)
                                           ELSE None,
                     IF load_result # None THEN Some(load_result[1].cache_hit) ELSE None,
                     None, warnings))
    /\ Goto("DONE")
    /\ UNCHANGED <<Args, ProcessVars, NormalizeVars, ResolverVars, AnalysisVars, FeedbackVars, Locals, failed, raised, calls>>

(***************************************************************************)
(* Free-form analysis: LLMClient and process_free_form_text                *)
(***************************************************************************)
\* the defaults of threshold_fuzzy and threshold_embedding, in hundredths
DefaultFuzzyThreshold == 85
EmbeddingThreshold == 75

\* a call of _call_llm returns what the completion holds, or raises
Completion(response) == [response |-> Some(response), raised |-> None]
CallFails(e) == [response |-> None, raised |-> Some(e)]
NoCall == [response |-> None, raised |-> None]
LLMErrors == { Exception("APIConnectionError", "Connection error.") }

\* an item of the JSON array of the completion; a key may be missing
Mention(text, type) == [text |-> text, type |-> type]

\* what _parse_json_response makes of the completion of the extraction
\* prompt: a list of items, or None for JSON that is not a list
ExtractionResponses ==
    LET Novak == Cap(Lat(<<"n", "o", "v", "a", "k">>))
        Math == Cap(Lat(<<"m", "a", "t", "h">>))
        Brno == Cap(Lat(<<"b", "r", "n", "o">>))
    IN  { None,
          Some(<<>>),
          Some(<< Mention(Some(Novak), Some("person")), Mention(Some(Math), Some("subject")),
                  Mention(Some(Brno), Some("location")) >>),
          Some(<< Mention(Some(Math), None), Mention(Some(<<>>), Some("person")),
                  Mention(Some(Brno), Some("organization")) >>) }

\* the completion of the sentiment prompt: a number (in hundredths), or None
\* for a text float() does not parse
SentimentResponses == { Some(50), Some(250), Some(-300), None }

\* settings.LLM_ENABLED and what the LLM service does during one call of
\* process_free_form_text
LLMCase(enabled, init, extraction, sentiment) ==
    [ LLM_ENABLED |-> enabled, init |-> init, extraction |-> extraction,
      sentiment |-> sentiment ]

\* LLMClient.__init__ that calls _init_client whatever settings.LLM_ENABLED is
LLMClient_AlwaysInit(llm_case) ==
    IF llm_case.init # None THEN [client |-> None, raised |-> llm_case.init]
    ELSE [client |-> Some([enabled |-> llm_case.LLM_ENABLED, _client |-> Some("OpenAI")]), raised |-> None]

\* LLMClient.__init__ and _init_client: the client, or the exception of the
\* OpenAI constructor, which is built only when the LLM is enabled
LLMClient(llm_case) ==
    IF ~llm_case.LLM_ENABLED THEN [client |-> Some([enabled |-> FALSE, _client |-> None]), raised |-> None]
    ELSE IF llm_case.init # None THEN [client |-> None, raised |-> llm_case.init]
    ELSE [client |-> Some([enabled |-> TRUE, _client |-> Some("OpenAI")]), raised |-> None]

\* LLMClient.extract_entities, for a text that is not blank: the valid items,
\* and [] when the client is disabled, the call raises or the JSON is not a
\* list.  It never raises.
extract_entities(llm_client, call) ==
    IF ~llm_client.enabled \/ llm_client._client = None THEN <<>>
    ELSE IF call.raised # None THEN <<>>
    ELSE IF call.response[1] = None THEN <<>>
    ELSE SelectSeq(call.response[1][1],
                   LAMBDA entity : entity.text # None /\ entity.type # None)

\* LLMClient.analyze_sentiment, for a text that is not blank, in hundredths
analyze_sentiment(llm_client, call) ==
    IF ~llm_client.enabled \/ llm_client._client = None THEN 0
    ELSE IF call.raised # None THEN 0
    ELSE IF call.response[1] = None THEN 0
    ELSE Max(-100, Min(100, call.response[1][1]))

\* load_entity_cache: the placeholder builds an empty EntityCache
load_entity_cache(region_id) == EntityCache(<<>>, <<>>, <<>>, <<>>, <<>>)

ObservationTarget(observation_id, target_type, target_id, relevance_score, conf) ==
    [ observation_id |-> observation_id, target_type |-> target_type,
      target_id |-> target_id, relevance_score |-> relevance_score, confidence |-> conf ]

\* resolve_entity as process_free_form_text calls it: value_type "name" and
\* the default thresholds.  embed_texts is given no outcome: it is called
\* only for a cache that holds embeddings.
ResolveMention(entity_text, entity_type, fm, cache) ==
    resolve_entity(entity_text, entity_type, fm.region_id, cache, "name",
                   DefaultFuzzyThreshold, EmbeddingThreshold, None)

\* the entity types tried for a mention of the given type
MentionTypes(entity_type_hint) ==
    CASE entity_type_hint = "person" -> <<"teacher", "student", "parent">>
      [] entity_type_hint = "subject" -> <<"subject">>
      [] entity_type_hint = "location" -> <<"region", "school">>
      [] OTHER -> <<>>

\* what resolve_entity gives for each of these types, in the order of the
\* calls; a loop below reads them up to the call that ends it
MentionMatches(entity_text, entity_types, fm, cache) ==
    [i \in DOMAIN entity_types |-> ResolveMention(entity_text, entity_types[i], fm, cache)]

\* the loop with "match.similarity_score >= best_score": a later type wins a tie
RECURSIVE BestPersonMatch_LaterWinsTie(_, _, _, _)
BestPersonMatch_LaterWinsTie(i, matches, best_match, best_score) ==
    IF i > Len(matches) THEN [best |-> best_match, raised |-> None]
    ELSE IF matches[i].raised # None THEN [best |-> None, raised |-> matches[i].raised]
    ELSE IF ~ FracGreater(best_score, matches[i].match[1].similarity_score)
    THEN BestPersonMatch_LaterWinsTie(i + 1, matches, matches[i].match,
                                      matches[i].match[1].similarity_score)
    ELSE BestPersonMatch_LaterWinsTie(i + 1, matches, best_match, best_score)

\* the loop over teacher, student and parent: the match of the highest score
RECURSIVE BestPersonMatch(_, _, _, _)
BestPersonMatch(i, matches, best_match, best_score) ==
    IF i > Len(matches) THEN [best |-> best_match, raised |-> None]
    ELSE IF matches[i].raised # None THEN [best |-> None, raised |-> matches[i].raised]
    ELSE IF FracGreater(matches[i].match[1].similarity_score, best_score)
    THEN BestPersonMatch(i + 1, matches, matches[i].match,
                         matches[i].match[1].similarity_score)
    ELSE BestPersonMatch(i + 1, matches, best_match, best_score)

\* the loop over region and school: the first match with an entity_id
RECURSIVE FirstLocationMatch(_, _)
FirstLocationMatch(i, matches) ==
    IF i > Len(matches) THEN [best |-> None, raised |-> None]
    ELSE IF matches[i].raised # None THEN [best |-> None, raised |-> matches[i].raised]
    ELSE IF matches[i].match[1].entity_id # "" THEN [best |-> matches[i].match, raised |-> None]
    ELSE FirstLocationMatch(i + 1, matches)

\* the match a mention is resolved to, if any, or the exception of resolve_entity
FoundMatch(entity, matches) ==
    IF entity.text[1] = <<>> THEN [best |-> None, raised |-> None]
    ELSE CASE entity.type[1] = "person" ->
                  BestPersonMatch(1, matches, None, Fraction(0, 100))
           [] entity.type[1] = "subject" ->
                  [best |-> matches[1].match, raised |-> matches[1].raised]
           [] entity.type[1] = "location" -> FirstLocationMatch(1, matches)
           [] OTHER -> [best |-> None, raised |-> None]

\* Step 2 of process_free_form_text from the i-th mention on: found[i] is what
\* the i-th mention resolves to
RECURSIVE ResolveMentions(_, _, _, _)
ResolveMentions(i, found, fm, observation_targets) ==
    IF i > Len(found) THEN [targets |-> observation_targets, raised |-> None]
    ELSE IF found[i].raised # None THEN [targets |-> <<>>, raised |-> found[i].raised]
    ELSE IF found[i].best # None /\ found[i].best[1].entity_id # ""
    THEN ResolveMentions(i + 1, found, fm,
             Append(observation_targets,
                    ObservationTarget(fm.file_id, found[i].best[1].entity_type,
                                      found[i].best[1].entity_id,
                                      found[i].best[1].similarity_score,
                                      found[i].best[1].confidence)))
    ELSE ResolveMentions(i + 1, found, fm, observation_targets)

ObservationRecord(file_id, region_id, detected_entities, sentiment_score) ==
    [ file_id |-> file_id, region_id |-> region_id,
      detected_entities |-> detected_entities, sentiment_score |-> sentiment_score ]

\* Steps 4 and 5: the observation and its targets, unless resolve_entity raised
Analysed(fm, detected_entities, sentiment_score, resolved) ==
    IF resolved.raised # None
    THEN [ observation |-> None, targets |-> <<>>, raised |-> resolved.raised ]
    ELSE [ observation |-> Some(ObservationRecord(fm.file_id, fm.region_id,
                                                  detected_entities, sentiment_score)),
           targets |-> resolved.targets, raised |-> None ]

\* Steps 1 to 3 with the client built
Analyse(fm, entity_cache, llm_case, llm_client) ==
    LET \* Step 1
        detected_entities ==
            IF llm_case.LLM_ENABLED THEN extract_entities(llm_client, llm_case.extraction)
            ELSE <<>>
        \* Step 3
        sentiment_score ==
            IF llm_case.LLM_ENABLED THEN analyze_sentiment(llm_client, llm_case.sentiment)
            ELSE 0
    IN  Analysed(fm, detected_entities, sentiment_score,
                 \* Step 2
                 ResolveMentions(1,
                     [i \in DOMAIN detected_entities |->
                         FoundMatch(detected_entities[i],
                                    MentionMatches(detected_entities[i].text[1],
                                                   MentionTypes(detected_entities[i].type[1]),
                                                   fm, entity_cache))],
                     fm, <<>>))

\* process_free_form_text: the observation and its targets, or the exception
\* that leaves it.  An exception of LLMClient() or of resolve_entity is not
\* caught.
process_free_form_text(fm, entity_cache, llm_case) ==
    IF LLMClient(llm_case).raised # None
    THEN [ observation |-> None, targets |-> <<>>, raised |-> LLMClient(llm_case).raised ]
    ELSE Analyse(fm, entity_cache, llm_case, LLMClient(llm_case).client[1])

\* the settings and the behaviours of the LLM service a call may meet
LLMCases ==
    { LLMCase(FALSE, init, NoCall, NoCall) : init \in {None} \cup { Some(e) : e \in AnalysisErrors } }
    \cup { LLMCase(TRUE, Some(e), NoCall, NoCall) : e \in AnalysisErrors }
    \cup { LLMCase(TRUE, None, extraction, sentiment) :
              extraction \in { CallFails(e) : e \in LLMErrors }
                             \cup { Completion(r) : r \in ExtractionResponses },
              sentiment \in { CallFails(e) : e \in LLMErrors }
                            \cup { Completion(r) : r \in SentimentResponses } }

(***************************************************************************)
(* _process_free_form_path                                                 *)
(***************************************************************************)
\* entity_cache = load_entity_cache(frontmatter.region_id): it builds an
\* EntityCache and raises nothing
LoadEntityCache ==
    /\ pc = "f_cache"
    /\ calls' = Append(calls, "load_entity_cache")
    /\ Goto("f_analyze")
    /\ UNCHANGED <<Args, ProcessVars, NormalizeVars, ResolverVars, AnalysisVars, FeedbackVars, Locals, failed, result, raised>>

\* what _process_free_form_path does with the outcome of process_free_form_text
FreeFormAnalysed(analysis) ==
    IF analysis.raised # None
    THEN /\ Raise(analysis.raised[1])
         /\ UNCHANGED <<observation, targets>>
    ELSE /\ observation' = analysis.observation
         /\ targets' = analysis.targets
         /\ Goto("f_insert")
         /\ UNCHANGED <<result, raised>>

\* observation, targets = process_free_form_text(...)
ProcessFreeForm ==
    /\ pc = "f_analyze"
    /\ calls' = Append(calls, "process_free_form_text")
    /\ \E llm_case \in LLMCases :
         /\ llm' = Some(llm_case)
         /\ FreeFormAnalysed(process_free_form_text(frontmatter[1],
                                 load_entity_cache(frontmatter[1].region_id), llm_case))
    /\ UNCHANGED <<Args, ProcessVars, NormalizeVars, ResolverVars, FeedbackVars, Locals, failed>>

\* DwhClient() and insert_observation.  insert_observation logs a failed
\* insert and returns; only the construction of the client can raise here.
InsertObservation ==
    /\ pc = "f_insert"
    /\ calls' = Append(calls, "insert_observation")
    /\ \/ /\ Goto("f_dims")
          /\ UNCHANGED <<warnings, failed>>
       \/ /\ failed' = failed \cup {"insert_observation"}
          /\ Goto("f_dims")
          /\ UNCHANGED warnings
       \/ \E e \in WarehouseErrors :
            /\ warnings' = Append(warnings, "BigQuery insert failed: " \o e.msg)
            /\ failed' = failed \cup {"DwhClient"}
            /\ Goto("f_return")
    /\ UNCHANGED <<Args, ProcessVars, NormalizeVars, ResolverVars, AnalysisVars, FeedbackVars, frontmatter, clean_text, df, table_type, confidence, mappings,
                   clean_location, load_result, result, raised>>

\* the dimension upserts of the observation; a failure is logged and nothing else
SyncDimensionsFreeForm ==
    /\ pc = "f_dims"
    /\ calls' = Append(calls, "upsert_dimensions")
    /\ \/ UNCHANGED failed
       \/ failed' = failed \cup {"upsert_dimensions"}
    /\ Goto("f_return")
    /\ UNCHANGED <<Args, ProcessVars, NormalizeVars, ResolverVars, AnalysisVars, FeedbackVars, Locals, result, raised>>

\* return IngestResult(status="INGESTED", table_type="FREE_FORM", rows_loaded=1, ...)
ReturnFreeForm ==
    /\ pc = "f_return"
    /\ result' = Some(IngestResult(frontmatter[1].file_id, "INGESTED",
                     Some("FREE_FORM"), Some(1), None, None, None, None, warnings))
    /\ Goto("DONE")
    /\ UNCHANGED <<Args, ProcessVars, NormalizeVars, ResolverVars, AnalysisVars, FeedbackVars, Locals, failed, raised, calls>>

Next ==
    \/ Start
    \/ ParseMetadata
    \/ Route
    \/ LoadDataframe
    \/ LoadCatalog
    \/ ClassifyTable
    \/ MapColumns
    \/ Normalize
    \/ WriteClean
    \/ LoadStaging
    \/ MergeStaging
    \/ SyncDimensions
    \/ ReturnTabular
    \/ LoadEntityCache
    \/ ProcessFreeForm
    \/ InsertObservation
    \/ SyncDimensionsFreeForm
    \/ ReturnFreeForm

Spec == Init /\ [][Next]_vars

\* every call runs to its return: no step of the call blocks forever
FairSpec == Spec /\ WF_vars(Next)

(***************************************************************************)
(* A process that serves ingestion calls one after the other               *)
(***************************************************************************)
MaxIngestionCalls == 2

\* the calls the process serves: a text with a whole frontmatter block and a
\* table, declared as CSV (tabular path) or as PDF (free-form path)
ProcessInputs ==
    { input \in CallInputs :
        /\ input[2] = None
        /\ input[1] \in BlockTexts
        /\ input[1].body = "table"
        /\ input[1].data.file_id # Absent
        /\ input[1].data.region_id # Absent
        /\ input[1].data.content_type \in {"text/csv", "application/pdf"} }

\* the process takes the next call of process_tabular_text when the running
\* one has returned: the locals start afresh, the module state stays
NextIngestionCall ==
    /\ pc = "DONE"
    /\ ingestion_calls + 1 < MaxIngestionCalls
    /\ ingestion_calls' = ingestion_calls + 1
    /\ \E input \in ProcessInputs :
         /\ text_content' = input[1]
         /\ fm_arg' = input[2]
         /\ frontmatter' = input[2]
    /\ pc' = "START"
    /\ clean_text' = None
    /\ warnings' = <<>>
    /\ df' = None
    /\ table_type' = None
    /\ confidence' = None
    /\ mappings' = None
    /\ clean_location' = None
    /\ load_result' = None
    /\ failed' = {}
    /\ result' = None
    /\ raised' = None
    /\ calls' = <<>>
    /\ stages' = <<"START">>
    /\ llm' = None
    /\ observation' = None
    /\ targets' = <<>>
    /\ UNCHANGED <<ResolverVars, FeedbackVars, NormalizeVars, _embedding_model, model_loads,
                   catalog_loads, threads>>

NextProcess ==
    \/ Next
    \/ NextIngestionCall

InitProcess == \E input \in ProcessInputs : Enter(input)

SpecProcess == InitProcess /\ [][NextProcess]_vars

\* ord(): the code point of a character
Glyphs ==
    <<"a", "b", "c", "d", "e", "f", "g", "h", "i", "j", "k", "l", "m", "n", "o", "p", "q",
      "r", "s", "t", "u", "v", "w", "x", "y", "z">>
Numerals == <<"0", "1", "2", "3", "4", "5", "6", "7", "8", "9">>
IndexOf(seq, x) == CHOOSE i \in DOMAIN seq : seq[i] = x
Colon == <<Char("punct", ":", FALSE)>>
Hyphen == <<Char("punct", "-", FALSE)>>
ord(c) ==
    CASE c.script = "space" -> 32
      [] c = Dot[1] -> 46
      [] c = Colon[1] -> 58
      [] c = Hyphen[1] -> 45
      [] c.script = "digit" -> 47 + IndexOf(Numerals, c.letter)
      [] c.script = "latin" -> (IF c.upper THEN 64 ELSE 96) + IndexOf(Glyphs, c.letter)
      [] c.script = "cyrillic" -> (IF c.upper THEN 1039 ELSE 1071) + IndexOf(Glyphs, c.letter)

\* str.encode(): the UTF-8 bytes, one for ASCII and two up to U+07FF
RECURSIVE encode(_)
encode(str) ==
    IF str = <<>> THEN <<>>
    ELSE LET cp == ord(Head(str))
         IN  (IF cp < 128 THEN <<cp>> ELSE <<192 + (cp \div 64), 128 + (cp % 64)>>)
                 \o encode(Tail(str))

\* hashlib.sha256(bytes).hexdigest(): 64 hexadecimal digits that every byte
\* and its position take part in.  The mixing stands for the compression
\* function of SHA-256, of which only the shape of the result is kept.
HexDigits ==
    <<"0", "1", "2", "3", "4", "5", "6", "7", "8", "9", "a", "b", "c", "d", "e", "f">>
RECURSIVE Mix(_, _, _)
Mix(bytes, i, k) ==
    IF i > Len(bytes) THEN k * k + Len(bytes)
    ELSE (bytes[i] * (i + k) + 31 * Mix(bytes, i + 1, k)) % 65536
sha256_hexdigest(bytes) == [k \in 1..64 |-> HexDigits[(Mix(bytes, 1, k) % 16) + 1]]

\* create_new_entity whose ID also depends on how many entities were created
\* before, as a sequence number or a random UUID would
create_new_entity_Sequential(entity_type, source_value, region_id) ==
    LET id_string == entity_type \o Colon \o region_id \o Colon \o source_value
    IN  SubSeq(sha256_hexdigest(encode(id_string) \o <<Len(created)>>), 1, 16)

\* create_new_entity: the first 16 digits of the SHA-256 of
\* "entity_type:region_id:source_value"
create_new_entity(entity_type, source_value, region_id) ==
    LET id_string == entity_type \o Colon \o region_id \o Colon \o source_value
    IN  SubSeq(sha256_hexdigest(encode(id_string)), 1, 16)

(***************************************************************************)
(* Calls of resolve_entity                                                 *)
(***************************************************************************)
ivan == Cyr(<<"i", "v", "a", "n">>)
petrov == Cyr(<<"p", "e", "t", "r", "o", "v">>)
IvanPetrov == Cap(ivan) \o Sp \o Cap(petrov)
SourceId == Cap(Lat(<<"t">>)) \o Digits(<<"0", "0", "0", "0", "0", "1">>)

SourceValues ==
    { <<>>,
      Sp,
      SourceId,
      Cap(ivan) \o Sp \o Sp \o Cap(petrov),
      ivan \o Sp \o Cyr(<<"p", "e", "t", "r", "o", "f">>),
      ivan \o Sp \o Cyr(<<"p", "e", "t", "r">>),
      Cap(Cyr(<<"i">>)) \o Dot \o Sp \o Cap(petrov),
      Cap(Lat(<<"i">>)) \o Dot \o Sp \o Cap(Lat(<<"p", "e", "t", "r", "o", "v">>)),
      Cap(Lat(<<"a", "n", "n", "a">>)) }

\* the teachers dict: normalized name -> entity id
NameCaches ==
    { <<>>,
      << <<ivan \o Sp \o petrov, "T-1">> >>,
      << <<ivan \o Sp \o petrov, "T-1">>,
         <<Cyr(<<"i">>) \o Sp \o Cyr(<<"p", "e", "t", "r", "o", "v", "a">>), "T-2">> >>,
      << <<Lower(SourceId), "T-3">> >>,
      << <<Lat(<<"t">>) \o Digits(<<"0", "0", "0", "0", "0", "2">>), "T-4">>,
         <<ivan \o Sp \o petrov, "T-1">> >>,
      << <<Lat(<<"i", "v", "a", "n">>) \o Sp \o Lat(<<"p", "e", "t", "r", "o", "v">>),
           "T-1">> >>,
      << <<ivan \o Sp \o Cyr(<<"p", "e", "t", "r", "o", "g">>), "T-5">>,
         <<ivan \o Sp \o petrov, "T-1">> >> }

\* the teacher_ids dict: source id -> entity id
IdCaches == { <<>>, << <<SourceId, "T-1">> >> }

\* the teacher_embeddings dict (its keys) with what embed_texts and the
\* cosine similarities give for it
EmbeddingCases ==
    { <<<<>>, None>> }
    \cup { <<<<"T-1", "T-2">>, Some(sims)>> :
              sims \in { <<60, 74>>, <<75, 60>>, <<75, 90>>, <<90, 90>> } }
    \cup { <<<<"T-1", "T-2">>, None>> }

EntityNames == << <<"T-1", IvanPetrov>> >>
Students == << <<ivan \o Sp \o petrov, "S-1">> >>

EntityTypes == {"teacher", "student", "course"}
ValueTypes == {"id", "name"}
FuzzyThresholds == {80, 85}

ResolveCalls ==
    { [ source_value |-> sv, entity_type |-> et, region_id |-> "region-1",
        cache |-> EntityCache(names, ids, emb[1], Students, EntityNames),
        value_type |-> vt, threshold_fuzzy |-> tf,
        threshold_embedding |-> EmbeddingThreshold, embedded |-> emb[2] ] :
        sv \in SourceValues, et \in EntityTypes, vt \in ValueTypes, names \in NameCaches,
        ids \in IdCaches, emb \in EmbeddingCases, tf \in FuzzyThresholds }

\* no call of process_tabular_text is running
Idle ==
    /\ pc = "IDLE"
    /\ text_content = None
    /\ fm_arg = None
    /\ frontmatter = None
    /\ clean_text = None
    /\ warnings = <<>>
    /\ df = None
    /\ table_type = None
    /\ confidence = None
    /\ mappings = None
    /\ clean_location = None
    /\ load_result = None
    /\ failed = {}
    /\ result = None
    /\ raised = None
    /\ calls = <<>>
    /\ stages = <<>>
    /\ llm = None
    /\ observation = None
    /\ targets = <<>>
    /\ created = <<>>
    /\ NoFeedback
    /\ NewProcess

InitResolve ==
    /\ Idle
    /\ threads = <<>>
    /\ NoNormalize
    /\ resolve_call \in { Some(call) : call \in ResolveCalls }
    /\ resolve_return = None

\* the call of resolve_entity runs and ends
ResolveEntity ==
    /\ resolve_call # None
    /\ resolve_return = None
    /\ LET call == resolve_call[1]
       IN  resolve_return' =
               Some(resolve_entity(call.source_value, call.entity_type, call.region_id,
                                   call.cache, call.value_type, call.threshold_fuzzy,
                                   call.threshold_embedding, call.embedded))
    /\ UNCHANGED <<pc, Args, ProcessVars, NormalizeVars, AnalysisVars, FeedbackVars, Locals, failed, result, raised, calls, stages, resolve_call,
                   created>>

NextResolve == ResolveEntity

SpecResolve == InitResolve /\ [][NextResolve]_vars

(***************************************************************************)
(* Calls of create_new_entity                                              *)
(***************************************************************************)
MaxCreateCalls == 3

CreateTypes == { Lat(<<"t", "e", "a", "c", "h", "e", "r">>), Lat(<<"s", "t", "u", "d", "e", "n", "t">>) }
CreateValues == { <<>>, IvanPetrov, Cap(Lat(<<"a", "n", "n", "a">>)) }
CreateRegions ==
    { Lat(<<"r", "e", "g", "i", "o", "n">>) \o Hyphen \o Digits(<<"0", d>>) : d \in {"1", "2"} }

\* the arguments of a call
CreateCalls ==
    { [entity_type |-> entity_type, source_value |-> source_value, region_id |-> region_id] :
        entity_type \in CreateTypes, source_value \in CreateValues,
        region_id \in CreateRegions }

\* what create_new_entity returns for each of them
NewEntityIds ==
    [ call \in CreateCalls |->
        create_new_entity(call.entity_type, call.source_value, call.region_id) ]

InitCreate ==
    /\ Idle
    /\ threads = <<>>
    /\ NoNormalize
    /\ resolve_call = None
    /\ resolve_return = None

\* one call of create_new_entity, logged with the ID it returned
CreateNewEntity ==
    /\ pc = "IDLE"
    /\ Len(created) < MaxCreateCalls
    /\ \E call \in CreateCalls :
         created' = Append(created,
                           [ entity_type |-> call.entity_type,
                             source_value |-> call.source_value,
                             region_id |-> call.region_id,
                             entity_id |-> NewEntityIds[call] ])
    /\ UNCHANGED <<pc, Args, ProcessVars, NormalizeVars, AnalysisVars, FeedbackVars, Locals, failed, result, raised, calls, stages,
                   resolve_call, resolve_return>>

NextCreate == CreateNewEntity

SpecCreate == InitCreate /\ [][NextCreate]_vars

(***************************************************************************)
(* Feedback analyzer: analyze_feedback_batch (feedback_analyzer.py)        *)
(***************************************************************************)
MAX_TARGETS_PER_FEEDBACK == 10
FEEDBACK_TARGET_THRESHOLD == 65

FeedbackTarget(feedback_id, target_type, target_id, relevance_score, conf) ==
    [ feedback_id |-> feedback_id, target_type |-> target_type, target_id |-> target_id,
      relevance_score |-> relevance_score, confidence |-> conf ]

_score_to_confidence(score) ==
    IF FracAtLeast(score, 80) THEN "HIGH"
    ELSE IF FracAtLeast(score, 65) THEN "MEDIUM"
    ELSE "LOW"

\* resolve_entity as _resolve_entity_mention calls it, once for each entity
\* type of the mention: value_type "name" and the default thresholds;
\* embedded is what embed_texts gives for the mention
FeedbackMatches(entity_text, entity_types, region_id, entity_cache, embedded) ==
    [ i \in DOMAIN entity_types |->
        resolve_entity(entity_text, entity_types[i], region_id, entity_cache, "name",
                       DefaultFuzzyThreshold, EmbeddingThreshold, embedded) ]

\* the target of a mention: one FeedbackTarget if a match with an entity_id
\* was found, and the exception of resolve_entity if it raised
MentionTarget(feedback_id, found) ==
    IF found.raised # None THEN [targets |-> <<>>, raised |-> found.raised]
    ELSE IF found.best # None /\ found.best[1].entity_id # ""
    THEN [ targets |-> << FeedbackTarget(feedback_id, found.best[1].entity_type,
                                         found.best[1].entity_id,
                                         found.best[1].similarity_score,
                                         _score_to_confidence(found.best[1].similarity_score)) >>,
           raised |-> None ]
    ELSE [targets |-> <<>>, raised |-> None]

\* _resolve_entity_mention; matches[i] is what resolve_entity gives for the
\* i-th entity type tried.  The loops over the types are those of
\* process_free_form_text.
_resolve_entity_mention(entity_type_hint, feedback_id, matches) ==
    MentionTarget(feedback_id,
        CASE entity_type_hint = "person" ->
                 BestPersonMatch(1, matches, None, Fraction(0, 100))
          [] entity_type_hint = "subject" ->
                 [best |-> matches[1].match, raised |-> matches[1].raised]
          [] entity_type_hint = "location" -> FirstLocationMatch(1, matches)
          [] OTHER -> [best |-> None, raised |-> None])

\* Step 2 of analyze_feedback_batch from the i-th mention on; resolved[i] is
\* what _resolve_entity_mention gives for it.  An exception ends the loop and
\* the targets found before it stay.
RECURSIVE ResolveFeedbackMentions(_, _, _, _)
ResolveFeedbackMentions(i, entities, resolved, target_list) ==
    IF i > Len(entities) THEN target_list
    ELSE IF entities[i].text[1] = <<>>
    THEN ResolveFeedbackMentions(i + 1, entities, resolved, target_list)
    ELSE IF resolved[i].raised # None THEN target_list
    ELSE ResolveFeedbackMentions(i + 1, entities, resolved,
                                 target_list \o resolved[i].targets)

\* the entity types _embedding_based_matching goes through, each with its dict
EmbeddingCaches(entity_cache) ==
    << <<"teacher", entity_cache.teacher_embeddings>>,
       <<"student", entity_cache.student_embeddings>>,
       <<"parent", entity_cache.parent_embeddings>>,
       <<"subject", entity_cache.subject_embeddings>>,
       <<"region", entity_cache.region_embeddings>>,
       <<"school", entity_cache.school_embeddings>> >>

\* the targets of one entity type: the entities of its dict, in order, whose
\* cosine similarity (in hundredths) reaches FEEDBACK_TARGET_THRESHOLD
TypeTargets(feedback_id, entity_type, embedding_cache, similarities) ==
    SelectSeq([ i \in DOMAIN embedding_cache |->
                  FeedbackTarget(feedback_id, entity_type, embedding_cache[i],
                                 Fraction(similarities[i], 100),
                                 _score_to_confidence(Fraction(similarities[i], 100))) ],
              LAMBDA target : FracAtLeast(target.relevance_score, FEEDBACK_TARGET_THRESHOLD))

\* _embedding_based_matching from the i-th entity type on; similarities[i]
\* are the cosine similarities of the text and the embeddings of that type
RECURSIVE EmbeddingTypesLoop(_, _, _, _, _)
EmbeddingTypesLoop(i, feedback_id, entity_types, similarities, target_list) ==
    IF i > Len(entity_types) THEN target_list
    ELSE IF entity_types[i][2] = <<>>
    THEN EmbeddingTypesLoop(i + 1, feedback_id, entity_types, similarities, target_list)
    ELSE EmbeddingTypesLoop(i + 1, feedback_id, entity_types, similarities,
             target_list \o TypeTargets(feedback_id, entity_types[i][1], entity_types[i][2],
                                    similarities[i]))

_embedding_based_matching(feedback_id, entity_cache, similarities) ==
    EmbeddingTypesLoop(1, feedback_id, EmbeddingCaches(entity_cache), similarities, <<>>)

\* the loop of _combine_and_deduplicate_targets: target_dict keeps the order
\* in which its keys were inserted
RECURSIVE CombineLoop(_, _)
CombineLoop(candidates, target_dict) ==
    IF candidates = <<>> THEN target_dict
    ELSE LET target == Head(candidates)
             Held(i) == /\ target_dict[i].target_type = target.target_type
                        /\ target_dict[i].target_id = target.target_id
         IN  IF ~ \E i \in DOMAIN target_dict : Held(i)
             THEN CombineLoop(Tail(candidates), Append(target_dict, target))
             ELSE LET k == CHOOSE i \in DOMAIN target_dict : Held(i)
                  IN  IF FracGreater(target.relevance_score, target_dict[k].relevance_score)
                      THEN CombineLoop(Tail(candidates), [target_dict EXCEPT ![k] = target])
                      ELSE CombineLoop(Tail(candidates), target_dict)

\* _combine_and_deduplicate_targets that keeps every candidate
_combine_and_deduplicate_targets_KeepAll(targets_llm, targets_embedding) ==
    targets_llm \o targets_embedding

_combine_and_deduplicate_targets(targets_llm, targets_embedding) ==
    CombineLoop(targets_llm \o targets_embedding, <<>>)

\* sorted(targets, key=relevance_score, reverse=True): a stable sort, so a
\* target goes behind those already placed whose score is not lower
RECURSIVE SortedByRelevance(_, _)
SortedByRelevance(target_list, sorted_targets) ==
    IF target_list = <<>> THEN sorted_targets
    ELSE LET target == Head(target_list)
             ahead == SelectSeq(sorted_targets,
                          LAMBDA t : ~ FracGreater(target.relevance_score, t.relevance_score))
             behind == SelectSeq(sorted_targets,
                          LAMBDA t : FracGreater(target.relevance_score, t.relevance_score))
         IN  SortedByRelevance(Tail(target_list), ahead \o <<target>> \o behind)

_select_top_targets(target_list, max_targets) ==
    SubSeq(SortedByRelevance(target_list, <<>>), 1, Min(max_targets, Len(target_list)))

(***************************************************************************)
(* Calls of the free-form analyzer: analyze_feedback_batch, and            *)
(* process_free_form_text with an entity cache that holds entities         *)
(***************************************************************************)
\* the entities of the cache: names are kept normalized
FeedbackNames ==
    [ novakova |-> Lat(<<"n", "o", "v", "a", "k", "o", "v", "a">>),
      novakovo |-> Lat(<<"n", "o", "v", "a", "k", "o", "v", "o">>),
      anna |-> Lat(<<"a", "n", "n", "a">>),
      math |-> Lat(<<"m", "a", "t", "h">>),
      brno |-> Lat(<<"b", "r", "n", "o">>) ]

\* an EntityCache with names of four entity types and no embeddings
NamesCache ==
    [ EntityCache(<< <<FeedbackNames.novakova, "T-1">>, <<ivan \o Sp \o petrov, "T-2">> >>,
                  <<>>, <<>>,
                  << <<FeedbackNames.novakovo, "S-1">>, <<ivan \o Sp \o petrov, "S-2">> >>, <<>>)
      EXCEPT !.subjects = << <<FeedbackNames.math, "SUB-1">> >>,
             !.schools = << <<FeedbackNames.brno, "SCH-1">> >> ]

\* the same cache with two embeddings for each entity type
EmbeddingsCache ==
    [ NamesCache
      EXCEPT !.teacher_embeddings = <<"T-1", "T-2">>,
             !.student_embeddings = <<"S-1", "S-2">>,
             !.parent_embeddings = <<"P-1", "P-2">>,
             !.subject_embeddings = <<"SUB-1", "SUB-2">>,
             !.region_embeddings = <<"R-1", "R-2">>,
             !.school_embeddings = <<"SCH-1", "SCH-2">> ]

\* the lists of mentions extract_entities may find in a text
FeedbackMentions ==
    { <<>>,
      << Mention(Some(Cap(FeedbackNames.novakova)), Some("person")),
         Mention(Some(Cap(FeedbackNames.math)), Some("subject")),
         Mention(Some(Cap(FeedbackNames.brno)), Some("location")) >>,
      << Mention(Some(Cap(FeedbackNames.novakovo)), Some("person")) >>,
      << Mention(Some(Cap(FeedbackNames.novakova)), Some("person")),
         Mention(Some(FeedbackNames.novakova), Some("person")) >>,
      << Mention(Some(<<>>), Some("person")),
         Mention(Some(Cap(FeedbackNames.anna)), Some("person")) >>,
      << Mention(Some(Cap(Cyr(<<"i">>)) \o Dot \o Sp \o Cap(petrov)), Some("person")) >>,
      << Mention(Some(Cap(FeedbackNames.brno)), Some("organization")),
         Mention(Some(Cap(FeedbackNames.math)), Some("subject")) >> }

\* what _call_llm does for the extraction prompt of a feedback text
Extractions(feedback_text) ==
    IF feedback_text = "detailed"
    THEN { CallFails(e) : e \in LLMErrors } \cup { Completion(None) }
         \cup { Completion(Some(mentions)) : mentions \in FeedbackMentions }
    ELSE { Completion(Some(<< Mention(Some(FeedbackNames.novakova), Some("person")) >>)) }

\* what embed_texts and the cosine similarities give in resolve_entity for a
\* mention of a feedback text: None if embed_texts raises
MentionEmbeddings(feedback_text) ==
    IF feedback_text = "detailed" THEN { None, Some(<<60, 60>>), Some(<<78, 60>>) }
    ELSE { Some(<<60, 60>>) }

\* the cosine similarities of a text and the two embeddings of an entity type
TypeSimilarities == { <<60, 64>>, <<70, 90>>, <<90, 65>> }

\* what embed_texts and the cosine similarities give in
\* _embedding_based_matching for a feedback text, for each of the six entity
\* types: None if embed_texts raises
TextEmbeddings(feedback_text) ==
    IF feedback_text = "detailed"
    THEN { None } \cup { Some(similarities) : similarities \in [1..6 -> TypeSimilarities] }
    ELSE { Some([i \in 1..6 |-> <<80, 80>>]), Some([i \in 1..6 |-> <<60, 64>>]) }

FeedbackRow(feedback_id, feedback_text) ==
    [feedback_id |-> feedback_id, feedback_text |-> feedback_text]

\* df_feedback: its columns and its rows; a feedback_text that is not a str is None
FeedbackFrames ==
    { [ columns |-> {"feedback_id", "feedback_text"}, rows |-> <<>> ],
      [ columns |-> {"feedback_id", "comment"},
        rows |-> << FeedbackRow("fb-1", Some("detailed")) >> ],
      [ columns |-> {"feedback_id", "feedback_text"},
        rows |-> << FeedbackRow("fb-1", Some("detailed")) >> ],
      [ columns |-> {"feedback_id", "feedback_text"},
        rows |-> << FeedbackRow("fb-1", Some("")), FeedbackRow("fb-2", None),
                    FeedbackRow("fb-3", Some("brief")), FeedbackRow("fb-4", Some("brief")) >> ] }

\* the arguments of a call of analyze_feedback_batch, with the settings it reads
BatchCalls ==
    { [ variant |-> "batch", df_feedback |-> frame, region_id |-> "region-1",
        entity_cache |-> cache, LLM_ENABLED |-> llm_enabled,
        FEEDBACK_ANALYSIS_ENABLED |-> analysis_enabled ] :
        frame \in FeedbackFrames, cache \in {load_entity_cache("region-1"), EmbeddingsCache},
        llm_enabled \in BOOLEAN, analysis_enabled \in BOOLEAN }

\* the arguments of a call of process_free_form_text; the entity cache holds
\* no embedding, so that resolve_entity does not call embed_texts
TextCalls ==
    { [ variant |-> "text",
        frontmatter |-> FrontmatterData([file_id |-> "file-1",
                                         region_id |-> "region-1",
                                         content_type |-> Absent,
                                         extraction_method |-> Absent]),
        entity_cache |-> cache ] :
        cache \in {load_entity_cache("region-1"), NamesCache} }

\* the settings and the behaviours of the LLM service such a call may meet
TextLLMCases ==
    { LLMCase(FALSE, None, NoCall, NoCall) }
    \cup { LLMCase(TRUE, None, extraction, Completion(Some(50))) :
              extraction \in Extractions("detailed") }

InitFeedback ==
    /\ pc \in {"BATCH_CALL", "TEXT_CALL"}
    /\ feedback \in { Some(call) : call \in BatchCalls \cup TextCalls }
    /\ feedback[1].variant = (IF pc = "BATCH_CALL" THEN "batch" ELSE "text")
    /\ idx = 0
    /\ mention_embedding = None
    /\ targets_from_llm = <<>>
    /\ targets_from_embedding = <<>>
    /\ top_targets = <<>>
    /\ all_targets = <<>>
    /\ NewProcess
    /\ threads = <<>>
    /\ NoNormalize
    /\ text_content = None
    /\ fm_arg = None
    /\ frontmatter = None
    /\ clean_text = None
    /\ warnings = <<>>
    /\ df = None
    /\ table_type = None
    /\ confidence = None
    /\ mappings = None
    /\ clean_location = None
    /\ load_result = None
    /\ failed = {}
    /\ result = None
    /\ raised = None
    /\ calls = <<>>
    /\ stages = <<>>
    /\ llm = None
    /\ observation = None
    /\ targets = <<>>
    /\ created = <<>>
    /\ resolve_call = None
    /\ resolve_return = None

\* the head of analyze_feedback_batch: an empty frame or a missing column
\* returns [], and LLMClient() is built before the loop
StartBatch ==
    /\ pc = "BATCH_CALL"
    /\ IF \/ feedback[1].df_feedback.rows = <<>>
          \/ ~ ({"feedback_id", "feedback_text"} \subseteq feedback[1].df_feedback.columns)
       THEN /\ pc' = "BATCH_RETURNED"
            /\ UNCHANGED <<llm, raised, idx>>
       ELSE \E init \in {None} \cup { Some(e) : e \in AnalysisErrors } :
              /\ llm' = Some(LLMCase(feedback[1].LLM_ENABLED, init, NoCall, NoCall))
              /\ IF LLMClient(llm'[1]).raised # None
                 THEN /\ raised' = LLMClient(llm'[1]).raised
                      /\ pc' = "BATCH_RAISED"
                      /\ UNCHANGED idx
                 ELSE /\ pc' = "BATCH_ROW"
                      /\ idx' = 1
                      /\ UNCHANGED raised
    /\ UNCHANGED <<Args, ProcessVars, NormalizeVars, Locals, ResolverVars, failed, result, calls, stages, observation,
                   targets, feedback, mention_embedding, targets_from_llm,
                   targets_from_embedding, top_targets, all_targets>>

\* the row the loop is at holds a feedback_text that is a str and not empty
RowHasText ==
    /\ idx \in DOMAIN feedback[1].df_feedback.rows
    /\ feedback[1].df_feedback.rows[idx].feedback_text \notin {None, Some("")}

\* Step 2: the targets of the mentions found in the text
MentionTargets(call, feedback_id, entities, embedded) ==
    ResolveFeedbackMentions(1, entities,
        [ i \in DOMAIN entities |->
            _resolve_entity_mention(entities[i].type[1], feedback_id,
                FeedbackMatches(entities[i].text[1], MentionTypes(entities[i].type[1]),
                                call.region_id, call.entity_cache, embedded)) ],
        <<>>)

\* Steps 1 and 2 for the row: the mentions of the text and their targets
ExtractMentions ==
    /\ pc = "BATCH_ROW"
    /\ RowHasText
    /\ IF feedback[1].LLM_ENABLED
       THEN \E extraction \in Extractions(feedback[1].df_feedback.rows[idx].feedback_text[1]),
               embedded \in MentionEmbeddings(feedback[1].df_feedback.rows[idx].feedback_text[1]) :
              /\ llm' = Some([llm[1] EXCEPT !.extraction = extraction])
              /\ mention_embedding' = embedded
              /\ targets_from_llm' =
                     MentionTargets(feedback[1], feedback[1].df_feedback.rows[idx].feedback_id,
                                    extract_entities(LLMClient(llm[1]).client[1], extraction),
                                    embedded)
       ELSE /\ targets_from_llm' = <<>>
            /\ UNCHANGED <<llm, mention_embedding>>
    /\ pc' = "BATCH_EMBED"
    /\ UNCHANGED <<Args, ProcessVars, NormalizeVars, Locals, ResolverVars, failed, result, raised, calls, stages,
                   observation, targets, feedback, idx, targets_from_embedding, top_targets,
                   all_targets>>

\* a row without a text is skipped
SkipRow ==
    /\ pc = "BATCH_ROW"
    /\ idx \in DOMAIN feedback[1].df_feedback.rows
    /\ ~RowHasText
    /\ idx' = idx + 1
    /\ UNCHANGED <<pc, Args, ProcessVars, NormalizeVars, Locals, ResolverVars, AnalysisVars, failed, result, raised, calls,
                   stages, feedback, mention_embedding, targets_from_llm,
                   targets_from_embedding, top_targets, all_targets>>

\* Step 3 for the row; an exception of _embedding_based_matching leaves []
EmbeddingMatching ==
    /\ pc = "BATCH_EMBED"
    /\ IF feedback[1].FEEDBACK_ANALYSIS_ENABLED
       THEN \E outcome \in TextEmbeddings(feedback[1].df_feedback.rows[idx].feedback_text[1]) :
              targets_from_embedding' =
                  IF outcome = None THEN <<>>
                  ELSE _embedding_based_matching(feedback[1].df_feedback.rows[idx].feedback_id,
                                                 feedback[1].entity_cache, outcome[1])
       ELSE targets_from_embedding' = <<>>
    /\ pc' = "BATCH_SELECT"
    /\ UNCHANGED <<Args, ProcessVars, NormalizeVars, Locals, ResolverVars, AnalysisVars, failed, result, raised, calls,
                   stages, feedback, idx, mention_embedding, targets_from_llm, top_targets,
                   all_targets>>

\* Steps 4 and 5 for the row, and the loop goes to the next row
SelectTargets ==
    /\ pc = "BATCH_SELECT"
    /\ top_targets' =
           _select_top_targets(
               _combine_and_deduplicate_targets(targets_from_llm, targets_from_embedding),
               MAX_TARGETS_PER_FEEDBACK)
    /\ all_targets' = all_targets \o top_targets'
    /\ idx' = idx + 1
    /\ pc' = "BATCH_ROW"
    /\ UNCHANGED <<Args, ProcessVars, NormalizeVars, Locals, ResolverVars, AnalysisVars, failed, result, raised, calls,
                   stages, feedback, mention_embedding, targets_from_llm,
                   targets_from_embedding>>

\* after the last row analyze_feedback_batch returns all_targets
ReturnBatch ==
    /\ pc = "BATCH_ROW"
    /\ idx > Len(feedback[1].df_feedback.rows)
    /\ pc' = "BATCH_RETURNED"
    /\ UNCHANGED <<Args, ProcessVars, NormalizeVars, Locals, ResolverVars, AnalysisVars, FeedbackVars, failed, result,
                   raised, calls, stages>>

\* what a call of process_free_form_text leaves: the observation and its
\* targets, or the exception
TextAnalysed(analysis) ==
    IF analysis.raised # None
    THEN /\ raised' = analysis.raised
         /\ pc' = "TEXT_RAISED"
         /\ UNCHANGED <<observation, targets>>
    ELSE /\ observation' = analysis.observation
         /\ targets' = analysis.targets
         /\ pc' = "TEXT_RETURNED"
         /\ UNCHANGED raised

\* one call of process_free_form_text
AnalyseText ==
    /\ pc = "TEXT_CALL"
    /\ \E llm_case \in TextLLMCases :
         /\ llm' = Some(llm_case)
         /\ TextAnalysed(process_free_form_text(feedback[1].frontmatter,
                                                feedback[1].entity_cache, llm_case))
    /\ UNCHANGED <<Args, ProcessVars, NormalizeVars, Locals, ResolverVars, FeedbackVars, failed, result, calls, stages>>

NextFeedback ==
    \/ StartBatch
    \/ ExtractMentions
    \/ SkipRow
    \/ EmbeddingMatching
    \/ SelectTargets
    \/ ReturnBatch
    \/ AnalyseText

SpecFeedback == InitFeedback /\ [][NextFeedback]_vars

(***************************************************************************)
(* Threads of a process that call init_embeddings and embed_texts          *)
(***************************************************************************)
MaxThreads == 2
MaxThreadCalls == 2

\* a thread: where it is, the function its caller called, the model it has
\* built and not yet stored, the calls it has made
Thread(at, op, built, calls_made) ==
    [pc |-> at, op |-> op, model |-> built, calls |-> calls_made]

InitEmbedding ==
    /\ Idle
    /\ NoNormalize
    /\ resolve_call = None
    /\ resolve_return = None
    /\ threads = [t \in 1..MaxThreads |-> Thread("idle", "none", None, 0)]

ThreadVars == <<pc, Args, NormalizeVars, ResolverVars, AnalysisVars, FeedbackVars, Locals, failed, result, raised, calls, stages, catalog_loads, ingestion_calls>>

\* the thread calls embed_texts(texts)
CallEmbedTexts(t) ==
    /\ threads[t].pc = "idle"
    /\ threads[t].calls < MaxThreadCalls
    /\ threads' = [threads EXCEPT ![t] = Thread("embed_texts", "embed_texts", None, @.calls + 1)]
    /\ UNCHANGED <<ThreadVars, _embedding_model, model_loads>>

\* the thread calls init_embeddings()
CallInitEmbeddings(t) ==
    /\ threads[t].pc = "idle"
    /\ threads[t].calls < MaxThreadCalls
    /\ threads' = [threads EXCEPT ![t] = Thread("init_embeddings", "init_embeddings", None, @.calls + 1)]
    /\ UNCHANGED <<ThreadVars, _embedding_model, model_loads>>

\* embed_texts: "if _embedding_model is None: init_embeddings()"
EmbedTextsTest(t) ==
    /\ threads[t].pc = "embed_texts"
    /\ threads' = [threads EXCEPT ![t].pc =
                      IF _embedding_model = None THEN "init_embeddings" ELSE "encode"]
    /\ UNCHANGED <<ThreadVars, _embedding_model, model_loads>>

\* where init_embeddings returns to
AfterInit(thread) == IF thread.op = "embed_texts" THEN "encode" ELSE "idle"

\* init_embeddings: "if _embedding_model is not None: return"
InitEmbeddingsTest(t) ==
    /\ threads[t].pc = "init_embeddings"
    /\ threads' = [threads EXCEPT ![t].pc =
                      IF _embedding_model # None THEN AfterInit(threads[t]) ELSE "construct"]
    /\ UNCHANGED <<ThreadVars, _embedding_model, model_loads>>

\* init_embeddings: SentenceTransformer(settings.EMBEDDING_MODEL_NAME) builds
\* a model, or raises and the exception leaves both functions
Construct(t) ==
    /\ threads[t].pc = "construct"
    /\ \/ /\ threads' = [threads EXCEPT ![t].pc = "assign",
                                        ![t].model = Some("SentenceTransformer")]
          /\ model_loads' = model_loads + 1
       \/ /\ threads' = [threads EXCEPT ![t].pc = "idle"]
          /\ UNCHANGED model_loads
    /\ UNCHANGED <<ThreadVars, _embedding_model>>

\* init_embeddings: the model built is stored in _embedding_model
Assign(t) ==
    /\ threads[t].pc = "assign"
    /\ _embedding_model' = threads[t].model
    /\ threads' = [threads EXCEPT ![t].pc = AfterInit(threads[t]), ![t].model = None]
    /\ UNCHANGED <<ThreadVars, model_loads>>

\* embed_texts: _embedding_model.encode(texts), and the function returns or raises
Encode(t) ==
    /\ threads[t].pc = "encode"
    /\ threads' = [threads EXCEPT ![t].pc = "idle"]
    /\ UNCHANGED <<ThreadVars, _embedding_model, model_loads>>

NextEmbedding ==
    \E t \in 1..MaxThreads :
        \/ CallEmbedTexts(t)
        \/ CallInitEmbeddings(t)
        \/ EmbedTextsTest(t)
        \/ InitEmbeddingsTest(t)
        \/ Construct(t)
        \/ Assign(t)
        \/ Encode(t)

SpecEmbedding == InitEmbedding /\ [][NextEmbedding]_vars

(***************************************************************************)
(* Normalizer: normalize.py                                                *)
(*                                                                         *)
(* A frame is its number of rows and its columns in order; a column is its *)
(* name, its dtype and its values; a value is a record of its Python kind, *)
(* its characters and its number.  Column names are strings.               *)
(***************************************************************************)
Cell(kind, text, num) == [kind |-> kind, text |-> text, num |-> num]
PyStr(text) == Cell("str", text, 0)
PyInt(n) == Cell("int", <<>>, n)
Datetime(text, n) == Cell("datetime", text, n)
NaN == Cell("nan", <<>>, 0)
NA == Cell("NA", <<>>, 0)
NaT == Cell("NaT", <<>>, 0)
Column(name, dtype, values) == [name |-> name, dtype |-> dtype, values |-> values]
Frame(index, columns) == [index |-> index, columns |-> columns]

\* pd.isna(value)
isna(value) == value.kind \in {"nan", "NA", "NaT"}

\* DataFrame.empty: an axis of length 0
empty(frame) == frame.index = 0 \/ frame.columns = <<>>

\* str.endswith, "word in str", str.lower for column names
endswith(name, suffix) ==
    /\ Len(name) >= Len(suffix)
    /\ SubSeq(name, Len(name) - Len(suffix) + 1, Len(name)) = suffix
contains(name, word) ==
    \E i \in 1..(Len(name) - Len(word) + 1) : SubSeq(name, i, i + Len(word) - 1) = word
UpperCase == "ABCDEFGHIJKLMNOPQRSTUVWXYZ"
LowerCase == "abcdefghijklmnopqrstuvwxyz"
RECURSIVE lower(_)
lower(name) ==
    IF name = "" THEN ""
    ELSE LET c == SubSeq(name, 1, 1)
             up == { i \in 1..26 : SubSeq(UpperCase, i, i) = c }
         IN  (IF up = {} THEN c ELSE LET i == CHOOSE i \in up : TRUE IN SubSeq(LowerCase, i, i))
                 \o lower(SubSeq(name, 2, Len(name)))

\* str(value) of a string or an int, and int(text) of a string of digits
RECURSIVE DecimalDigits(_)
DecimalDigits(n) ==
    IF n < 10 THEN <<Numerals[n + 1]>>
    ELSE DecimalDigits(n \div 10) \o <<Numerals[(n % 10) + 1]>>
py_str(value) ==
    CASE value.kind = "str" -> value.text
      [] value.kind = "int" -> Digits(DecimalDigits(value.num))
      [] value.kind = "nan" -> Lat(<<"n", "a", "n">>)
IsDigits(text) == text # <<>> /\ \A i \in DOMAIN text : text[i].script = "digit"
RECURSIVE ParseInt(_)
ParseInt(text) ==
    IF text = <<>> THEN 0
    ELSE 10 * ParseInt(SubSeq(text, 1, Len(text) - 1))
            + IndexOf(Numerals, text[Len(text)].letter) - 1

\* the column name is held by more than one column: frame[name] is a frame
Duplicated(columns, name) == Cardinality({ i \in DOMAIN columns : columns[i].name = name }) > 1

\* normalize_dataframe, Step 2: the name rename_map gives a column; of two
\* mappings of one source column the later one stays in the dict
rename_map_AutoOnly(mapping_list, name) ==
    LET renaming == { i \in DOMAIN mapping_list :
                        /\ mapping_list[i].source_column = name
                        /\ mapping_list[i].status = "AUTO"
                        /\ Truthy(mapping_list[i].concept_key) }
    IN  IF renaming = {} THEN name
        ELSE mapping_list[CHOOSE i \in renaming : \A j \in renaming : j <= i].concept_key[1]

rename_map(mapping_list, name) ==
    LET renaming == { i \in DOMAIN mapping_list :
                        /\ mapping_list[i].source_column = name
                        /\ mapping_list[i].status \in {"AUTO", "LOW_CONFIDENCE"}
                        /\ Truthy(mapping_list[i].concept_key) }
    IN  IF renaming = {} THEN name
        ELSE mapping_list[CHOOSE i \in renaming : \A j \in renaming : j <= i].concept_key[1]

\* _cast_column_types: pd.to_datetime(errors="coerce") of a value
to_datetime(value) ==
    CASE value.kind = "str" /\ IsDigits(value.text) -> Datetime(value.text, 0)
      [] value.kind = "int" -> Datetime(<<>>, value.num)
      [] value.kind = "datetime" -> value
      [] OTHER -> NaT

\* _cast_column_types: pd.to_numeric(errors="coerce") of a value
to_numeric(value) ==
    CASE value.kind = "str" /\ IsDigits(value.text) -> PyInt(ParseInt(value.text))
      [] value.kind = "int" -> value
      [] value.kind = "datetime" -> PyInt(value.num)
      [] OTHER -> NaN

\* _cast_column_types: astype(str).str.strip() and replace("nan", pd.NA)
StripValue(value) ==
    LET text == Strip(py_str(value))
    IN  IF text = Lat(<<"n", "a", "n">>) THEN NA ELSE PyStr(text)

DateColumn(name) == contains(lower(name), "date") \/ name \in {"from_date", "to_date", "uploaded_at", "timestamp"}
NumericKeywords == {"score", "count", "value", "duration", "size", "length", "weight", "relevance", "impact", "sentiment"}
NumericColumn(name) == \E keyword \in NumericKeywords : contains(lower(name), keyword)
is_numeric_dtype(dtype) == dtype \in {"int64", "float64"}

\* _cast_column_types for one column.  On a name held by several columns
\* every conversion raises inside its try and the columns stay as they are.
CastColumn(columns, column) ==
    LET dated ==
            IF DateColumn(column.name)
            THEN Column(column.name, "datetime64", [r \in DOMAIN column.values |-> to_datetime(column.values[r])])
            ELSE column
        numbers == [r \in DOMAIN dated.values |-> to_numeric(dated.values[r])]
        numeric ==
            IF NumericColumn(dated.name) /\ ~is_numeric_dtype(dated.dtype)
            THEN Column(dated.name, IF \E r \in DOMAIN numbers : isna(numbers[r]) THEN "float64" ELSE "int64", numbers)
            ELSE dated
        stripped ==
            IF numeric.dtype = "object"
            THEN Column(numeric.name, "object", [r \in DOMAIN numeric.values |-> StripValue(numeric.values[r])])
            ELSE numeric
    IN  IF Duplicated(columns, column.name) THEN column ELSE stripped

_cast_column_types(frame) ==
    Frame(frame.index, [c \in DOMAIN frame.columns |-> CastColumn(frame.columns, frame.columns[c])])

\* frame[name] = value: every column of that name is replaced, or a new
\* column is added after the others
SetColumn(frame, name, dtype, values) ==
    IF \E c \in DOMAIN frame.columns : frame.columns[c].name = name
    THEN Frame(frame.index, [c \in DOMAIN frame.columns |->
                                IF frame.columns[c].name = name
                                THEN Column(name, dtype, values) ELSE frame.columns[c]])
    ELSE Frame(frame.index, Append(frame.columns, Column(name, dtype, values)))

\* frame[name] = scalar
SetScalar(frame, name, dtype, value) == SetColumn(frame, name, dtype, [r \in 1..frame.index |-> value])

\* frame[name], for a name one column holds
GetColumn(frame, name) == frame.columns[CHOOSE c \in DOMAIN frame.columns : frame.columns[c].name = name]

\* str.title(): a letter after a letter is lowered, any other letter raised
Title(text) ==
    [i \in DOMAIN text |->
        IF text[i].script \notin {"latin", "cyrillic"} THEN text[i]
        ELSE Char(text[i].script, text[i].letter,
                  i = 1 \/ text[i - 1].script \notin {"latin", "cyrillic"})]

\* str.replace(old, new)
RECURSIVE Replace(_, _, _)
Replace(text, old, new) ==
    IF Len(text) < Len(old) THEN text
    ELSE IF SubSeq(text, 1, Len(old)) = old
         THEN new \o Replace(SubSeq(text, Len(old) + 1, Len(text)), old, new)
         ELSE <<text[1]>> \o Replace(Tail(text), old, new)

SCaron == <<Char("latin", "s-caron", TRUE)>>
Gymnazium == Cap(Lat(<<"g", "y", "m", "n">>)) \o <<Char("latin", "a-acute", FALSE)>> \o Lat(<<"z", "i", "u", "m">>)

\* _normalize_school_name
_normalize_school_name(name) ==
    IF isna(name) \/ name = PyStr(<<>>) THEN name
    ELSE LET spaced == Strip(CollapseSpaces(py_str(name)))
             titled == Title(spaced)
             zs == Replace(titled, Cap(Lat(<<"z", "s">>)), Cap(Lat(<<"z">>)) \o SCaron)
             ss == Replace(zs, Cap(Lat(<<"s", "s">>)), Cap(Lat(<<"s">>)) \o SCaron)
         IN  PyStr(Replace(ss, Cap(Lat(<<"g", "y", "m">>)), Gymnazium))

\* an empty value is hashed like any other
_pseudonymize_id_HashEmpty(id_value) ==
    IF isna(id_value) THEN id_value
    ELSE PyStr(SubSeq(sha256_hexdigest(encode(py_str(id_value))), 1, 16))

\* _pseudonymize_id
_pseudonymize_id(id_value) ==
    IF isna(id_value) \/ id_value = PyStr(<<>>) THEN id_value
    ELSE PyStr(SubSeq(sha256_hexdigest(encode(py_str(id_value))), 1, 16))

\* _clean_data: the loop over id_columns.  Storing frame[col], a frame of
\* several columns when the name is duplicated, into one column raises.
RECURSIVE PseudonymizeColumns(_, _)
PseudonymizeColumns(frame, id_columns) ==
    IF id_columns = <<>> THEN [value |-> Some(frame), raised |-> None]
    ELSE LET col == Head(id_columns)
             column == GetColumn(frame, col)
             kept == SetColumn(frame, col \o "_original", column.dtype, column.values)
             hashed == SetColumn(kept, col, "object",
                                 [r \in DOMAIN column.values |-> _pseudonymize_id(column.values[r])])
         IN  IF Duplicated(frame.columns, col)
             THEN [value |-> None, raised |-> Some(Exception("ValueError", "Cannot set a DataFrame with multiple columns"))]
             ELSE PseudonymizeColumns(hashed, Tail(id_columns))

\* _clean_data.  Series.apply on a duplicated school_name hands whole columns
\* to _normalize_school_name, whose test raises.
_clean_data(frame, PSEUDONYMIZE_IDS) ==
    LET named ==
            IF \E c \in DOMAIN frame.columns : frame.columns[c].name = "school_name"
            THEN LET column == GetColumn(frame, "school_name")
                 IN  SetColumn(frame, "school_name", column.dtype,
                               [r \in DOMAIN column.values |-> _normalize_school_name(column.values[r])])
            ELSE frame
        id_columns ==
            SelectSeq([c \in DOMAIN named.columns |-> named.columns[c].name],
                      LAMBDA col : endswith(col, "_id") /\ col \notin {"region_id", "file_id"})
    IN  IF Duplicated(frame.columns, "school_name")
        THEN [value |-> None, raised |-> Some(Exception("ValueError", "The truth value of a Series is ambiguous"))]
        ELSE IF PSEUDONYMIZE_IDS THEN PseudonymizeColumns(named, id_columns)
        ELSE [value |-> Some(named), raised |-> None]

\* datetime.now(timezone.utc)
Now == Datetime(<<>>, 1)

\* normalize_dataframe up to Step 4: the frame handed to _clean_data
TypedFrame(call) ==
    LET renamed == Frame(call.df_raw.index,
                         [c \in DOMAIN call.df_raw.columns |->
                             Column(rename_map(call.mappings, call.df_raw.columns[c].name),
                                    call.df_raw.columns[c].dtype, call.df_raw.columns[c].values)])
        typed == _cast_column_types(renamed)
        region == SetScalar(typed, "region_id", "object", PyStr(call.region_id))
        file == SetScalar(region, "file_id", "object", PyStr(call.file_id))
        stamped == SetScalar(file, "ingest_timestamp", "datetime64", Now)
    IN  SetScalar(stamped, "source_table_type", "object", PyStr(call.table_type))

\* normalize_dataframe
normalize_dataframe(call) ==
    IF empty(call.df_raw) THEN [value |-> Some(call.df_raw), raised |-> None]
    ELSE _clean_data(TypedFrame(call), call.PSEUDONYMIZE_IDS)

(***************************************************************************)
(* Calls of normalize_dataframe                                            *)
(***************************************************************************)
StudentOne == Cap(Lat(<<"s">>)) \o Digits(<<"1">>)
SchoolBrno == Lat(<<"z", "s">>) \o Sp \o Sp \o Lat(<<"b", "r", "n", "o">>)

\* the frames: pupils and their school, ids and points, numeric ids beside a
\* region_id column of the file, a table without rows, and pd.DataFrame()
RawFrames ==
    { Frame(2, << Column("zak", "object", <<PyStr(Sp \o StudentOne \o Sp), PyStr(Sp)>>),
                  Column("skola", "object", <<PyStr(SchoolBrno), NaN>>) >>),
      Frame(2, << Column("student_id", "object", <<PyStr(StudentOne), NaN>>),
                  Column("Score", "object", <<PyStr(Digits(<<"1", "2">>)), PyStr(Lat(<<"x">>))>>) >>),
      Frame(2, << Column("teacher_id", "int64", <<PyInt(7), PyInt(12)>>),
                  Column("region_id", "object", <<PyStr(Lat(<<"x">>)), PyStr(Lat(<<"n", "a", "n">>))>>) >>),
      Frame(0, << Column("zak", "object", <<>>),
                  Column("student_id", "object", <<>>) >>),
      Frame(0, <<>>) }

ConceptKeys == {"student_id", "school_name", "test_score"}

\* what map_columns may hold for a column; "none" is a column without mapping
MappingChoices ==
    {<<"none", None>>, <<"UNKNOWN", None>>, <<"AUTO", None>>}
        \cup ({"AUTO", "LOW_CONFIDENCE"} \X { Some(key) : key \in ConceptKeys })

ColumnMapping(source_column, choice) ==
    [source_column |-> source_column, concept_key |-> choice[2], status |-> choice[1]]

\* the mappings of a frame, in column order
FrameMappings(frame, choices) ==
    LET all == [c \in DOMAIN frame.columns |-> ColumnMapping(frame.columns[c].name, choices[c])]
    IN  SelectSeq(all, LAMBDA mapping : mapping.status # "none")

NormalizeCalls ==
    { [ df_raw |-> frame,
        table_type |-> Lat(<<"a", "t", "t", "e", "n", "d", "a", "n", "c", "e">>),
        mappings |-> FrameMappings(frame, choices),
        region_id |-> Lat(<<"r">>) \o Digits(<<"1">>),
        file_id |-> Lat(<<"f">>) \o Digits(<<"1">>),
        PSEUDONYMIZE_IDS |-> setting ] :
        frame \in RawFrames, choices \in [1..2 -> MappingChoices], setting \in BOOLEAN }

InitNormalize ==
    /\ Idle
    /\ threads = <<>>
    /\ resolve_call = None
    /\ resolve_return = None
    /\ normalize_call \in { Some(call) : call \in NormalizeCalls }
    /\ normalize_return = None

NormalizeDataframe ==
    /\ normalize_call # None
    /\ normalize_return = None
    /\ normalize_return' = Some(normalize_dataframe(normalize_call[1]))
    /\ UNCHANGED <<pc, Args, ProcessVars, ResolverVars, AnalysisVars, FeedbackVars, Locals, failed, result, raised, calls, stages, normalize_call>>

NextNormalize == NormalizeDataframe

SpecNormalize == InitNormalize /\ [][NextNormalize]_vars

(***************************************************************************)
(* Properties of the orchestrator                                          *)
(***************************************************************************)
Range(seq) == { seq[i] : i \in DOMAIN seq }

Returned == pc = "DONE" /\ result # None

\* the stage changes a call may make
StageSteps ==
    { <<"START", "PARSE_METADATA">>, <<"PARSE_METADATA", "ROUTE">>,
      <<"PARSE_METADATA", "DONE">>, <<"ROUTE", "TABULAR_PATH">>,
      <<"ROUTE", "FREE_FORM_PATH">>, <<"TABULAR_PATH", "FREE_FORM_PATH">>,
      <<"TABULAR_PATH", "DONE">>, <<"FREE_FORM_PATH", "DONE">> }

StageStep ==
    /\ Stage(pc') # Stage(pc) => <<Stage(pc), Stage(pc')>> \in StageSteps
    /\ (Stage(pc) = "PARSE_METADATA" /\ Stage(pc') = "DONE")
          => result'[1].status = "FAILED"

\* C3: every call goes START, PARSE_METADATA, ROUTE, then TABULAR_PATH or
\* FREE_FORM_PATH, then DONE (a call that fails goes from its stage to DONE);
\* the only change of path is from TABULAR_PATH to FREE_FORM_PATH, the
\* free-form path never enters the tabular path, and every call reaches DONE
\* with status INGESTED or FAILED.
C3_StageOrder ==
    /\ [][StageStep]_vars
    /\ <>(Returned /\ result[1].status \in {"INGESTED", "FAILED"})

C3_Witness ==
    stages = <<"START", "PARSE_METADATA", "ROUTE", "TABULAR_PATH", "FREE_FORM_PATH",
               "DONE">>

NoUsableBlock(text) ==
    \/ ~text.starts_with_delimiter
    \/ ~text.closed
    \/ text.yaml \in {"error", "scalar"}

LacksRequiredField ==
    /\ fm_arg = None
    /\ ~NoUsableBlock(text_content)
    /\ text_content.sections_are_mappings
    /\ \/ text_content.data.file_id = Absent
       \/ text_content.data.region_id = Absent

\* C6: a frontmatter that parses but lacks file_id or region_id fails the
\* record: the result is FAILED and neither path is run.
C6_MissingFieldFails ==
    (LacksRequiredField /\ pc \notin {"START", "PARSE_METADATA"}) =>
        /\ pc = "DONE"
        /\ result[1].status = "FAILED"
        /\ Range(stages) \cap {"TABULAR_PATH", "FREE_FORM_PATH"} = {}

\* the classification confidence is below 0.4
ConfidenceBelowThreshold == confidence # None /\ confidence[1].num * 10 < 4 * confidence[1].den

TabularSteps ==
    { "map_columns", "normalize_dataframe", "write_clean_parquet",
      "load_parquet_to_staging", "merge_staging_to_core" }

LowConfidenceWarning ==
    \E i \in DOMAIN warnings :
        warnings[i] = "Low classification confidence: 0."
                          \o ToString(Thousandths(confidence[1]))

C8_ThresholdBoundary ==
    confidence # None =>
        /\ (table_type = Some("FREE_FORM")) <=> ConfidenceBelowThreshold
        /\ ("FREE_FORM_PATH" \in Range(stages)) <=> ConfidenceBelowThreshold
        /\ ~ConfidenceBelowThreshold =>
              \/ pc = "t_map"
              \/ "map_columns" \in Range(calls)

C8_Witness ==
    /\ confidence = Some(Fraction(4, 10))
    /\ table_type = Some("ATTENDANCE")
    /\ "map_columns" \in Range(calls)

\* the greatest score among the candidates of a mapping
BestCandidateScore(m) ==
    CHOOSE x \in { m.candidates[i][2] : i \in DOMAIN m.candidates } :
        \A i \in DOMAIN m.candidates : m.candidates[i][2] <= x

\* C9: a column's status is AUTO if its best adjusted score is >= 0.75,
\* LOW_CONFIDENCE if it is >= 0.55 and < 0.75, UNKNOWN otherwise, and its
\* concept_key is null exactly when the status is UNKNOWN.
C9_MappingStatus ==
    mappings # None =>
        \A c \in DOMAIN mappings[1] :
            LET m == mappings[1][c]
            IN  /\ m.score = BestCandidateScore(m)
                /\ m.status = "AUTO" <=> m.score >= 75
                /\ m.status = "LOW_CONFIDENCE" <=> (m.score >= 55 /\ m.score < 75)
                /\ m.status = "UNKNOWN" <=> m.score < 55
                /\ m.concept_key = None <=> m.status = "UNKNOWN"

C9_Witness ==
    /\ mappings # None
    /\ mappings[1][1].score = 75 /\ mappings[1][1].status = "AUTO"
    /\ mappings[1][2].score = 55 /\ mappings[1][2].status = "LOW_CONFIDENCE"

\* C10: a persistence collaborator that fails after the transformation or the
\* analysis leaves the status alone: the result is INGESTED with no
\* error_message.
C10_PersistenceFailureKeepsIngested ==
    (failed # {} /\ pc = "DONE") =>
        /\ result[1].status = "INGESTED"
        /\ result[1].error_message = None

C10_Witness ==
    /\ Returned
    /\ "merge_staging_to_core" \in failed
    /\ result[1].status = "INGESTED"

(***************************************************************************)
(* Properties of the entity resolver                                       *)
(***************************************************************************)
\* the call of resolve_entity has ended for a source value that is not empty
Resolved == resolve_return # None /\ resolve_call[1].source_value # <<>>

NameIndex == _get_cache_dicts(resolve_call[1].cache, resolve_call[1].entity_type)[1]
IdIndex == _get_cache_dicts(resolve_call[1].cache, resolve_call[1].entity_type)[2]
EmbeddingIndex == _get_cache_dicts(resolve_call[1].cache, resolve_call[1].entity_type)[3]
Normalized == normalize_name(resolve_call[1].source_value)
ReturnedMatch == resolve_return[1].match[1]

\* the conditions of the rules, each by itself
IdExactHolds ==
    resolve_call[1].value_type = "id" /\ HasKey(IdIndex, resolve_call[1].source_value)
NameExactHolds == HasKey(NameIndex, Normalized)
FuzzyHolds ==
    \E i \in DOMAIN NameIndex :
        /\ Max(Len(Normalized), Len(NameIndex[i][1])) > 0
        /\ FracAtLeast(Similarity(Normalized, NameIndex[i][1]),
                       resolve_call[1].threshold_fuzzy)
InitialsHold ==
    LET candidates == expand_initials(resolve_call[1].source_value,
                                      resolve_call[1].region_id)
    IN  \E i \in DOMAIN candidates : HasKey(NameIndex, candidates[i])
EmbeddingHolds ==
    /\ EmbeddingIndex # <<>>
    /\ resolve_call[1].embedded # None
    /\ \E i \in DOMAIN EmbeddingIndex :
           resolve_call[1].embedded[1][i] >= resolve_call[1].threshold_embedding

\* C1: a call with value_type "id" whose source value (not empty) is a key of
\* the entity type's id dict returns the mapped entity id with method
\* ID_EXACT, score 1.0 and confidence HIGH, whatever the name dict holds;
\* never NAME_EXACT or FUZZY.
C1_IdExactFirst ==
    (Resolved /\ IdExactHolds) =>
        /\ resolve_return[1].raised = None
        /\ ReturnedMatch.match_method = "ID_EXACT"
        /\ ReturnedMatch.entity_id = Lookup(IdIndex, resolve_call[1].source_value)
        /\ ReturnedMatch.similarity_score = Fraction(100, 100)
        /\ ReturnedMatch.confidence = "HIGH"

C1_Witness ==
    /\ Resolved
    /\ IdExactHolds
    /\ NameExactHolds
    /\ Lookup(NameIndex, Normalized) # Lookup(IdIndex, resolve_call[1].source_value)
    /\ ReturnedMatch.match_method = "ID_EXACT"

\* the first rule whose condition holds
FirstRule ==
    IF IdExactHolds THEN "ID_EXACT"
    ELSE IF NameExactHolds THEN "NAME_EXACT"
    ELSE IF FuzzyHolds THEN "FUZZY"
    ELSE IF InitialsHold THEN "INITIALS"
    ELSE IF EmbeddingHolds THEN "EMBEDDING"
    ELSE "NEW"

\* the similarity of every cached name is at most that of the i-th
BestFuzzy(i) ==
    \A j \in DOMAIN NameIndex :
        ~FracGreater(Similarity(Normalized, NameIndex[j][1]),
                     Similarity(Normalized, NameIndex[i][1]))

\* the match is the outcome of the rule
OutcomeOf(rule, m) ==
    CASE rule = "ID_EXACT" ->
             /\ m.match_method = "ID_EXACT"
             /\ m.entity_id = Lookup(IdIndex, resolve_call[1].source_value)
      [] rule = "NAME_EXACT" ->
             /\ m.match_method = "NAME_EXACT"
             /\ m.entity_id = Lookup(NameIndex, Normalized)
      [] rule = "FUZZY" ->
             /\ m.match_method = "FUZZY"
             /\ \E i \in DOMAIN NameIndex :
                    /\ m.entity_id = NameIndex[i][2]
                    /\ m.similarity_score = Similarity(Normalized, NameIndex[i][1])
                    /\ BestFuzzy(i)
      [] rule = "INITIALS" ->
             /\ m.match_method = "FUZZY"
             /\ m.similarity_score = Fraction(80, 100)
             /\ m.confidence = "MEDIUM"
             /\ LET candidates == expand_initials(resolve_call[1].source_value,
                                                  resolve_call[1].region_id)
                IN  \E i \in DOMAIN candidates :
                        /\ HasKey(NameIndex, candidates[i])
                        /\ m.entity_id = Lookup(NameIndex, candidates[i])
      [] rule = "EMBEDDING" ->
             /\ m.match_method = "EMBEDDING"
             /\ \E i \in DOMAIN EmbeddingIndex :
                    /\ m.entity_id = EmbeddingIndex[i]
                    /\ m.similarity_score = Fraction(resolve_call[1].embedded[1][i], 100)
                    /\ \A j \in DOMAIN EmbeddingIndex :
                           resolve_call[1].embedded[1][j] <= resolve_call[1].embedded[1][i]
      [] rule = "NEW" ->
             /\ m.match_method = "NEW"
             /\ m.entity_id = ""

\* C2: the rules are tried in the order ID_EXACT (only for value_type "id"),
\* NAME_EXACT on the normalized value, FUZZY by edit distance, initials
\* expansion, EMBEDDING, NEW: a call that returns, returns the outcome of the
\* first rule whose condition holds, and NEW only if no rule matches.
C2_FirstRuleWins ==
    (Resolved /\ resolve_return[1].match # None) => OutcomeOf(FirstRule, ReturnedMatch)

C2_Witness ==
    /\ Resolved
    /\ ~IdExactHolds /\ ~NameExactHolds
    /\ FuzzyHolds /\ InitialsHold /\ EmbeddingHolds
    /\ ReturnedMatch.match_method = "FUZZY"
    /\ ReturnedMatch.entity_id = "T-2"
    /\ ReturnedMatch.confidence = "HIGH"

(***************************************************************************)
(* Properties of the persistence and analysis steps                        *)
(***************************************************************************)
\* the persistence writes of the two paths
PersistenceWrites ==
    { "write_clean_parquet", "load_parquet_to_staging", "merge_staging_to_core",
      "insert_observation" }

\* the warnings that report a failed persistence write
WriteFailureWarnings ==
    { "Clean layer write failed: " \o e.msg : e \in StorageErrors }
    \cup { "BigQuery load failed: " \o e.msg : e \in WarehouseErrors }
    \cup { "BigQuery insert failed: " \o e.msg : e \in WarehouseErrors }

\* C11: whenever a persistence write of either path fails (clean-layer write,
\* staging load or merge, observation or target insert), the returned
\* IngestResult has a warning that reports the failure.
C11_WriteFailureWarned ==
    (Returned /\ failed \cap PersistenceWrites # {}) =>
        Range(result[1].warnings) \cap WriteFailureWarnings # {}

\* the analysis step of the running call met a disabled LLM, a failing
\* extraction call, a failing sentiment call
LLMDisabled == llm # None /\ ~llm[1].LLM_ENABLED
ExtractionCallFailed ==
    llm # None /\ llm[1].LLM_ENABLED /\ llm[1].init = None /\ llm[1].extraction.raised # None
SentimentCallFailed ==
    llm # None /\ llm[1].LLM_ENABLED /\ llm[1].init = None /\ llm[1].sentiment.raised # None

\* C12: when the LLM is disabled or the entity-extraction call fails, the
\* analysis returns an observation with no detected entities and no targets,
\* whose sentiment is 0.0 when the LLM is disabled or the sentiment call
\* fails; no exception leaves the step and the call returns INGESTED.
C12_LLMFailureTolerated ==
    (LLMDisabled \/ ExtractionCallFailed) =>
        /\ observation # None
        /\ observation[1].detected_entities = <<>>
        /\ targets = <<>>
        /\ (LLMDisabled \/ SentimentCallFailed) => observation[1].sentiment_score = 0
        /\ raised = None
        /\ Returned => result[1].status = "INGESTED"

\* a call returned after its extraction call failed and its sentiment call
\* gave 0.5
C12_Witness ==
    /\ Returned
    /\ ExtractionCallFailed
    /\ llm[1].sentiment = Completion(Some(50))
    /\ observation # None
    /\ observation[1].sentiment_score = 50
    /\ observation[1].detected_entities = <<>>

\* a warning of the returned result that no other step of the call wrote:
\* neither the low-confidence warning nor a write-failure warning
AnalysisWarning(w) ==
    /\ w \notin WriteFailureWarnings
    /\ confidence # None =>
           w # "Low classification confidence: 0." \o ToString(Thousandths(confidence[1]))

\* C13: when the extraction call or the sentiment call of the free-form
\* analysis fails, the call returns INGESTED and the returned warnings hold
\* an entry that records the failure.
C13_AnalysisFailureWarned ==
    (Returned /\ (ExtractionCallFailed \/ SentimentCallFailed)) =>
        /\ result[1].status = "INGESTED"
        /\ \E i \in DOMAIN result[1].warnings : AnalysisWarning(result[1].warnings[i])

\* the declared content type of the running call is application/json
DeclaredJson ==
    frontmatter # None /\ frontmatter[1].original_content_type = Some("application/json")

\* the text of the running call does not load as a table
NotLoadable ==
    /\ frontmatter # None
    /\ clean_text # None
    /\ ~load_dataframe_from_text(clean_text[1], frontmatter[1]).ok

\* C14: content declared as application/json goes to the tabular path first,
\* and when it does not load as a table the call returns INGESTED with
\* table_type FREE_FORM.
C14_JsonFallsBack ==
    (Returned /\ DeclaredJson) =>
        /\ \E i \in DOMAIN stages : stages[i] = "TABULAR_PATH"
        /\ NotLoadable =>
               /\ result[1].status = "INGESTED"
               /\ result[1].table_type = Some("FREE_FORM")

(***************************************************************************)
(* Properties of the edge cases and the scores of the entity resolver      *)
(***************************************************************************)
\* the call of resolve_entity is over
ResolveEnded == resolve_call # None /\ resolve_return # None

\* C15: resolve_entity with an empty source_value returns, whatever the
\* entity type, the value_type and the cache are, a match with match_method
\* NEW, confidence LOW, entity_id "" and score 0.0, and raises nothing.
C15_EmptyValueIsNew ==
    (ResolveEnded /\ resolve_call[1].source_value = <<>>) =>
        /\ resolve_return[1].raised = None
        /\ resolve_return[1].match # None
        /\ ReturnedMatch.match_method = "NEW"
        /\ ReturnedMatch.confidence = "LOW"
        /\ ReturnedMatch.entity_id = ""
        /\ ReturnedMatch.similarity_score.num = 0

\* an empty value resolved for an entity type the caches do not know, with
\* value_type "id" and caches that hold names, ids and embeddings
C15_Witness ==
    /\ ResolveEnded
    /\ resolve_call[1].source_value = <<>>
    /\ resolve_call[1].entity_type = "course"
    /\ resolve_call[1].value_type = "id"
    /\ resolve_call[1].cache.teachers # <<>>
    /\ resolve_call[1].cache.teacher_ids # <<>>
    /\ resolve_call[1].cache.teacher_embeddings # <<>>
    /\ ReturnedMatch.match_method = "NEW"

\* a source_value made of white space only
WhitespaceOnly(value) == value # <<>> /\ \A i \in DOMAIN value : IsSpace(value[i])

\* C16: resolve_entity with a source_value of white space only returns NEW
\* with confidence LOW and entity_id "" whatever the cache holds, and raises
\* nothing.
C16_WhitespaceIsNew ==
    (ResolveEnded /\ WhitespaceOnly(resolve_call[1].source_value)) =>
        /\ resolve_return[1].raised = None
        /\ resolve_return[1].match # None
        /\ ReturnedMatch.match_method = "NEW"
        /\ ReturnedMatch.confidence = "LOW"
        /\ ReturnedMatch.entity_id = ""

\* two logged calls of create_new_entity had the same arguments
SameTriple(a, b) ==
    /\ a.entity_type = b.entity_type
    /\ a.source_value = b.source_value
    /\ a.region_id = b.region_id

LatinInitialScenario ==
    /\ ResolveEnded
    /\ resolve_call[1].source_value
           = Cap(Lat(<<"i">>)) \o Dot \o Sp \o Cap(Lat(<<"p", "e", "t", "r", "o", "v">>))
    /\ NameIndex = << <<Lat(<<"i", "v", "a", "n">>) \o Sp
                          \o Lat(<<"p", "e", "t", "r", "o", "v">>), "T-1">> >>
    /\ ~IdExactHolds
CyrillicInitialScenario ==
    /\ ResolveEnded
    /\ resolve_call[1].source_value = Cap(Cyr(<<"i">>)) \o Dot \o Sp \o Cap(petrov)
    /\ NameIndex = << <<ivan \o Sp \o petrov, "T-1">> >>
    /\ ~IdExactHolds

\* the call returned the entity with the outcome of the initials rule
InitialsOutcome(entity_id) ==
    /\ resolve_return[1].raised = None
    /\ resolve_return[1].match # None
    /\ ReturnedMatch.entity_id = entity_id
    /\ ReturnedMatch.match_method = "FUZZY"
    /\ ReturnedMatch.similarity_score = Fraction(80, 100)
    /\ ReturnedMatch.confidence = "MEDIUM"

\* the general rule: when no earlier rule matches and a candidate of the
\* expansion is a cached name, the call returns the entity of the first such
\* candidate with the outcome of the initials rule
InitialsRule ==
    (Resolved /\ ~IdExactHolds /\ ~NameExactHolds /\ ~FuzzyHolds /\ InitialsHold) =>
        LET candidates == expand_initials(resolve_call[1].source_value,
                                          resolve_call[1].region_id)
            first == CHOOSE i \in DOMAIN candidates :
                        /\ HasKey(NameIndex, candidates[i])
                        /\ \A j \in 1..(i - 1) : ~HasKey(NameIndex, candidates[j])
        IN  InitialsOutcome(Lookup(NameIndex, candidates[first]))

\* C18 as claimed: "I. Petrov" against {"ivan petrov": "T-1"} resolves to T-1
\* as FUZZY with score 0.80 and confidence MEDIUM, and the general rule holds.
C18_InitialScenario ==
    /\ LatinInitialScenario => InitialsOutcome("T-1")
    /\ InitialsRule

\* C18 amended: the scenario holds in Cyrillic letters; the Latin value has no
\* expansion and is never resolved by the initials rule; the general rule
\* holds.
C18_CyrillicInitialsExpand ==
    /\ CyrillicInitialScenario => InitialsOutcome("T-1")
    /\ LatinInitialScenario =>
           /\ expand_initials(resolve_call[1].source_value, resolve_call[1].region_id) = <<>>
           /\ resolve_return[1].match # None => ReturnedMatch.match_method # "FUZZY"
    /\ InitialsRule

C18_Witness ==
    /\ CyrillicInitialScenario
    /\ resolve_call[1].cache.teacher_embeddings # <<>>
    /\ InitialsOutcome("T-1")

\* the call reached Step 4: no ID match and no exact name match ended it
ReachedFuzzy == Resolved /\ ~IdExactHolds /\ ~NameExactHolds

\* C19: the distance-based fuzzy rule matches exactly when some cached name
\* has a similarity >= threshold_fuzzy.  Then the call returns FUZZY with an
\* entity whose cached name has the highest similarity, that similarity as
\* the score, and confidence HIGH if the score is >= 0.85 and MEDIUM
\* otherwise.  When no cached name reaches the threshold, a FUZZY result can
\* only come from the initials rule.
C19_FuzzyBestMatch ==
    ReachedFuzzy =>
        IF FuzzyHolds
        THEN /\ resolve_return[1].raised = None
             /\ ReturnedMatch.match_method = "FUZZY"
             /\ \E i \in DOMAIN NameIndex :
                    /\ ReturnedMatch.entity_id = NameIndex[i][2]
                    /\ ReturnedMatch.similarity_score = Similarity(Normalized, NameIndex[i][1])
                    /\ BestFuzzy(i)
             /\ FracAtLeast(ReturnedMatch.similarity_score, resolve_call[1].threshold_fuzzy)
             /\ ReturnedMatch.confidence
                    = IF FracAtLeast(ReturnedMatch.similarity_score, 85) THEN "HIGH"
                      ELSE "MEDIUM"
        ELSE (resolve_return[1].match # None /\ ReturnedMatch.match_method = "FUZZY") =>
                 /\ InitialsHold
                 /\ ReturnedMatch.similarity_score = Fraction(80, 100)

\* a fuzzy match between the threshold 0.80 and 0.85, out of two cached names
C19_Witness ==
    /\ ReachedFuzzy
    /\ FuzzyHolds
    /\ Len(NameIndex) = 2
    /\ resolve_call[1].threshold_fuzzy = 80
    /\ ReturnedMatch.match_method = "FUZZY"
    /\ ~FracAtLeast(ReturnedMatch.similarity_score, 85)
    /\ ReturnedMatch.confidence = "MEDIUM"

\* HIGH > MEDIUM > LOW
Tier(conf) == CASE conf = "HIGH" -> 3 [] conf = "MEDIUM" -> 2 [] conf = "LOW" -> 1

\* the calls with the default thresholds
DefaultCalls ==
    { call \in ResolveCalls :
        /\ call.threshold_fuzzy = DefaultFuzzyThreshold
        /\ call.threshold_embedding = EmbeddingThreshold }

\* the score and the confidence of every match such a call returns
DefaultOutcomes ==
    { <<r.match[1].similarity_score, r.match[1].confidence>> :
        r \in { ret \in { resolve_entity(call.source_value, call.entity_type,
                                          call.region_id, call.cache, call.value_type,
                                          call.threshold_fuzzy, call.threshold_embedding,
                                          call.embedded) : call \in DefaultCalls } :
                  ret.match # None } }

\* C20: of two matches returned with the default thresholds, the one with
\* the strictly higher similarity_score never has the strictly lower
\* confidence tier.
C20_TiersFollowScores ==
    (ResolveEnded /\ resolve_call[1] \in DefaultCalls /\ resolve_return[1].match # None) =>
        \A other \in DefaultOutcomes :
            FracGreater(ReturnedMatch.similarity_score, other[1]) =>
                Tier(ReturnedMatch.confidence) >= Tier(other[2])


(***************************************************************************)
(* Properties of the free-form analyzer                                    *)
(***************************************************************************)
\* the candidate targets of the row last analysed, before Step 4
Candidates == targets_from_llm \o targets_from_embedding

SameKey(a, b) == a.target_type = b.target_type /\ a.target_id = b.target_id

\* the loop of analyze_feedback_batch is between two rows, or has ended
RowFinished == pc \in {"BATCH_ROW", "BATCH_RETURNED"}

CandidateKeys == { <<Candidates[k].target_type, Candidates[k].target_id>> : k \in DOMAIN Candidates }

\* C21: the targets a feedback record ends with hold no key (target_type,
\* target_id) twice, are in descending order of relevance and number at most
\* MAX_TARGETS_PER_FEEDBACK; each one is a candidate of the highest relevance
\* of its key, and a key is left out only when MAX_TARGETS_PER_FEEDBACK
\* targets of a relevance not lower are kept.
C21_TopTargetsOfRecord ==
    RowFinished =>
        /\ \A i, j \in DOMAIN top_targets :
               i # j => ~SameKey(top_targets[i], top_targets[j])
        /\ \A i, j \in DOMAIN top_targets :
               i < j => ~FracGreater(top_targets[j].relevance_score,
                                     top_targets[i].relevance_score)
        /\ Len(top_targets) <= 10
        /\ \A i \in DOMAIN top_targets :
               /\ \E k \in DOMAIN Candidates : Candidates[k] = top_targets[i]
               /\ \A k \in DOMAIN Candidates :
                      SameKey(Candidates[k], top_targets[i])
                          => ~FracGreater(Candidates[k].relevance_score,
                                          top_targets[i].relevance_score)
        /\ Len(top_targets) = Min(10, Cardinality(CandidateKeys))
        /\ \A k \in DOMAIN Candidates :
               \/ \E i \in DOMAIN top_targets : SameKey(top_targets[i], Candidates[k])
               \/ \A i \in DOMAIN top_targets :
                      ~FracGreater(Candidates[k].relevance_score,
                                   top_targets[i].relevance_score)
        /\ Len(all_targets) >= Len(top_targets)
        /\ SubSeq(all_targets, Len(all_targets) - Len(top_targets) + 1, Len(all_targets))
               = top_targets

\* a record with more than 12 candidates of 12 keys, one of them found both
\* from a mention and from the embeddings with a higher relevance from the
\* mention, ends with the cap of 10 targets, the last of a relevance higher
\* than a candidate left out
C21_Witness ==
    /\ RowFinished
    /\ Len(Candidates) > 12
    /\ Cardinality(CandidateKeys) = 12
    /\ Len(top_targets) = 10
    /\ \E i \in DOMAIN targets_from_llm, j \in DOMAIN targets_from_embedding :
           /\ SameKey(targets_from_llm[i], targets_from_embedding[j])
           /\ FracGreater(targets_from_llm[i].relevance_score,
                          targets_from_embedding[j].relevance_score)
    /\ \E k \in DOMAIN Candidates :
           FracGreater(top_targets[10].relevance_score, Candidates[k].relevance_score)


\* a call of process_free_form_text returned
TextReturned == pc = "TEXT_RETURNED"

\* C22: the targets process_free_form_text returns hold no key (target_type,
\* target_id) twice, are in descending order of relevance and number at most
\* MAX_TARGETS_PER_FEEDBACK.
C22_TextTargetsDeduplicated ==
    TextReturned =>
        /\ \A i, j \in DOMAIN targets : i # j => ~SameKey(targets[i], targets[j])
        /\ \A i, j \in DOMAIN targets :
               i < j => ~FracGreater(targets[j].relevance_score, targets[i].relevance_score)
        /\ Len(targets) <= MAX_TARGETS_PER_FEEDBACK


\* the confidence the relevance score of a target stands for
ConfidenceOfRelevance(target) ==
    IF target.relevance_score.num * 100 >= 80 * target.relevance_score.den THEN "HIGH"
    ELSE IF target.relevance_score.num * 100 >= 65 * target.relevance_score.den THEN "MEDIUM"
    ELSE "LOW"

\* C23: every target of the free-form analyzer, from process_free_form_text
\* and from analyze_feedback_batch, carries the confidence of its relevance
\* score: HIGH from 0.80, MEDIUM from 0.65, else LOW.
C23_ConfidenceFromRelevance ==
    \A target \in Range(targets) \cup Range(all_targets) \cup Range(targets_from_llm)
                  \cup Range(targets_from_embedding) :
        target.confidence = ConfidenceOfRelevance(target)

\* the same for the targets of analyze_feedback_batch alone
BatchConfidenceFromRelevance ==
    \A target \in Range(all_targets) \cup Range(targets_from_llm)
                  \cup Range(targets_from_embedding) :
        target.confidence = ConfidenceOfRelevance(target)


\* the mentions the LLM found in the text last analysed
FoundMentions ==
    IF llm = None \/ ~llm[1].LLM_ENABLED \/ llm[1].extraction.response = None
       \/ llm[1].extraction.response[1] = None
    THEN <<>>
    ELSE SelectSeq(llm[1].extraction.response[1][1], LAMBDA m : m.text[1] # <<>>)

\* what resolve_entity gives for a mention as each of teacher, student, parent
PersonResolutions(mention) ==
    [ k \in 1..3 |->
        resolve_entity(mention.text[1], <<"teacher", "student", "parent">>[k], "region-1",
                       feedback[1].entity_cache, "name", 85, 75, mention_embedding) ]

PersonResolutionRaises(mention) ==
    \E k \in 1..3 : PersonResolutions(mention)[k].raised # None

\* the first of the three resolutions whose score no other one exceeds
BestResolution(mention) ==
    LET score(k) == PersonResolutions(mention)[k].match[1].similarity_score
        best == CHOOSE k \in 1..3 :
                    /\ \A j \in 1..3 : score(j).num * score(k).den <= score(k).num * score(j).den
                    /\ \A j \in 1..(k - 1) : score(j).num * score(k).den < score(k).num * score(j).den
    IN  PersonResolutions(mention)[best].match[1]

\* <<target_type, target_id, relevance_score>> of the target of a person
\* mention, if it has one
PersonTargetOf(mention) ==
    IF BestResolution(mention).entity_id = "" THEN <<>>
    ELSE << << BestResolution(mention).entity_type, BestResolution(mention).entity_id,
               BestResolution(mention).similarity_score >> >>

\* the targets of the person mentions from the i-th on, up to one whose
\* resolution raises
RECURSIVE PersonTargetsFrom(_, _)
PersonTargetsFrom(i, mentions) ==
    IF i > Len(mentions) THEN <<>>
    ELSE IF PersonResolutionRaises(mentions[i]) THEN <<>>
    ELSE PersonTargetOf(mentions[i]) \o PersonTargetsFrom(i + 1, mentions)

TargetTriples(target_list) ==
    [ i \in DOMAIN target_list |->
        << target_list[i].target_type, target_list[i].target_id,
           target_list[i].relevance_score >> ]

\* the LLM found person mentions only, and the analysis of the text ended
PersonMentionsAnalysed ==
    /\ pc \in {"BATCH_EMBED", "TEXT_RETURNED"}
    /\ \A i \in DOMAIN FoundMentions : FoundMentions[i].type[1] = "person"

\* C24: a person mention is resolved as teacher, student and parent and gives
\* at most one target, that of the resolution of the highest similarity score
\* (the earlier type on a tie), and none when the three resolutions are NEW;
\* no target has an empty target_id.
C24_BestPersonMatch ==
    /\ PersonMentionsAnalysed =>
           TargetTriples(IF pc = "TEXT_RETURNED" THEN targets ELSE targets_from_llm)
               = PersonTargetsFrom(1, FoundMentions)
    /\ \A target \in Range(targets) \cup Range(targets_from_llm) \cup Range(all_targets) :
           target.target_id # ""

\* a mention that resolves to a teacher and to a student with the same score
\* gives the teacher, in both variants; one with a higher score as student
\* gives the student; one that is NEW three times gives nothing
TieGivesTeacher(variant) ==
    /\ PersonMentionsAnalysed
    /\ feedback[1].variant = variant
    /\ Len(FoundMentions) = 1
    /\ ~PersonResolutionRaises(FoundMentions[1])
    /\ PersonResolutions(FoundMentions[1])[1].match[1].entity_id # ""
    /\ PersonResolutions(FoundMentions[1])[1].match[1].similarity_score
           = PersonResolutions(FoundMentions[1])[2].match[1].similarity_score
    /\ PersonTargetOf(FoundMentions[1])[1][1] = "teacher"

C24_Witness == TieGivesTeacher("batch")

C24_WitnessText == TieGivesTeacher("text")

C24_WitnessStudent ==
    /\ PersonMentionsAnalysed
    /\ Len(FoundMentions) = 1
    /\ ~PersonResolutionRaises(FoundMentions[1])
    /\ PersonResolutions(FoundMentions[1])[1].match[1].entity_id # ""
    /\ TargetTriples(targets_from_llm) = << <<"student", "S-1", Fraction(100, 100)>> >>

C24_WitnessNew ==
    /\ PersonMentionsAnalysed
    /\ Len(FoundMentions) = 1
    /\ ~PersonResolutionRaises(FoundMentions[1])
    /\ \A k \in 1..3 : PersonResolutions(FoundMentions[1])[k].match[1].match_method = "NEW"
    /\ targets_from_llm = <<>>
    /\ targets = <<>>


(***************************************************************************)
(* Properties of the module state of concepts.py                           *)
(***************************************************************************)
\* C25: over the ingestion calls of a process the concept catalog is loaded,
\* and its anchor and concept vectors are computed, at most once.
C25_CatalogLoadedOnce == catalog_loads <= 1

\* the embedding model, for its part, is built once over these calls
ModelBuiltOnceInSequence == model_loads <= 1


\* C30: under any interleaving of the threads that call init_embeddings and
\* embed_texts, the embedding model is built at most once in the process.
C30_ModelBuiltOnce == model_loads <= 1


(***************************************************************************)
(* Properties of the normalizer                                            *)
(***************************************************************************)
NormalizeReturned == normalize_return # None /\ normalize_return[1].raised = None

\* the mapping renames the column of that header
Renames(mapping, header) ==
    /\ mapping.source_column = header
    /\ mapping.status \in {"AUTO", "LOW_CONFIDENCE"}
    /\ mapping.concept_key \notin {None, Some("")}

\* every column of the input stands in the output at its place, under its
\* concept key if a mapping renames it and under its own header if none does
HeadersFollowMappings(call, out) ==
    \A c \in DOMAIN call.df_raw.columns :
        LET header == call.df_raw.columns[c].name
        IN  /\ c \in DOMAIN out.columns
            /\ \A i \in DOMAIN call.mappings :
                   Renames(call.mappings[i], header)
                       => out.columns[c].name = call.mappings[i].concept_key[1]
            /\ (\A i \in DOMAIN call.mappings : ~Renames(call.mappings[i], header))
                   => out.columns[c].name = header

\* C26 as stated: normalize renames a column to its concept key if and only
\* if its mapping has status AUTO or LOW_CONFIDENCE with a concept key; a
\* column whose mapping is UNKNOWN, or that has no mapping, keeps its header.
C26_RenamedIffMapped ==
    NormalizeReturned => HeadersFollowMappings(normalize_call[1], normalize_return[1].value[1])

\* C26, amended: for a frame that is not empty, normalize renames a column to
\* its concept key if and only if its mapping has status AUTO or
\* LOW_CONFIDENCE with a concept key, and every other column keeps its
\* header; an empty frame (no rows, or no columns) is returned as it came,
\* no column renamed.
C26_RenamedIffMappedUnlessEmpty ==
    NormalizeReturned =>
        LET call == normalize_call[1]
            out == normalize_return[1].value[1]
        IN  IF empty(call.df_raw) THEN out = call.df_raw
            ELSE HeadersFollowMappings(call, out)

\* a frame with rows came back with its first column renamed by a
\* LOW_CONFIDENCE mapping and its second, of UNKNOWN mapping, as it was
C26_Witness ==
    /\ NormalizeReturned
    /\ LET call == normalize_call[1]
           out == normalize_return[1].value[1]
       IN  /\ call.df_raw.index > 0
           /\ Len(call.mappings) = 2
           /\ call.mappings[1].status = "LOW_CONFIDENCE"
           /\ call.mappings[2].status = "UNKNOWN"
           /\ out.columns[1].name = "student_id"
           /\ call.df_raw.columns[1].name = "zak"
           /\ out.columns[2].name = "skola"


\* the columns of a frame that hold a name
ColumnsNamed(frame, name) == { c \in DOMAIN frame.columns : frame.columns[c].name = name }

\* the name of a column that _clean_data pseudonymizes
IdColumn(name) == endswith(name, "_id") /\ name \notin {"region_id", "file_id"}

\* the value an id column holds for a value it held before hashing
HashOf(value) ==
    IF isna(value) \/ value = PyStr(<<>>) THEN value
    ELSE PyStr(SubSeq(sha256_hexdigest(encode(py_str(value))), 1, 16))

\* every id column of the output has beside it a column <col>_original with
\* the values it held before hashing, and holds their hashes; region_id and
\* file_id hold the arguments of the call
OriginalsKept(call, out) ==
    /\ \A c \in DOMAIN out.columns :
           IdColumn(out.columns[c].name) =>
               LET before == GetColumn(TypedFrame(call), out.columns[c].name).values
               IN  /\ \E o \in ColumnsNamed(out, out.columns[c].name \o "_original") :
                          out.columns[o].values = before
                   /\ out.columns[c].values = [r \in DOMAIN before |-> HashOf(before[r])]
    /\ \A c \in ColumnsNamed(out, "region_id") :
           out.columns[c].values = [r \in 1..out.index |-> PyStr(call.region_id)]
    /\ \A c \in ColumnsNamed(out, "file_id") :
           out.columns[c].values = [r \in 1..out.index |-> PyStr(call.file_id)]

\* C27 as stated: with pseudonymization enabled, every output column whose
\* name ends in _id, region_id and file_id apart, has a column <col>_original
\* holding row by row the value the column had before hashing, and holds the
\* hash of that value (null and empty values unchanged); region_id and file_id
\* are never hashed.
C27_OriginalRoundTrip ==
    (NormalizeReturned /\ normalize_call[1].PSEUDONYMIZE_IDS)
        => OriginalsKept(normalize_call[1], normalize_return[1].value[1])

\* C27, amended: with pseudonymization enabled and a frame that is not empty,
\* every output column whose name ends in _id, region_id and file_id apart,
\* has a column <col>_original holding row by row the value the column had
\* before hashing, and holds the hash of that value (null and empty values
\* unchanged); region_id and file_id are never hashed.  An empty frame is
\* returned as it came, its id columns without a column <col>_original.
C27_OriginalRoundTripUnlessEmpty ==
    (NormalizeReturned /\ normalize_call[1].PSEUDONYMIZE_IDS) =>
        LET call == normalize_call[1]
            out == normalize_return[1].value[1]
        IN  IF empty(call.df_raw) THEN out = call.df_raw
            ELSE OriginalsKept(call, out)

\* the column renamed to student_id came back hashed in its first row and
\* empty in its second, with student_id_original holding "S1" and ""
C27_Witness ==
    /\ NormalizeReturned
    /\ normalize_call[1].PSEUDONYMIZE_IDS
    /\ ~empty(normalize_call[1].df_raw)
    /\ LET out == normalize_return[1].value[1]
       IN  /\ out.columns[1].name = "student_id"
           /\ out.columns[1].values[1].kind = "str"
           /\ Len(out.columns[1].values[1].text) = 16
           /\ out.columns[1].values[1].text # StudentOne
           /\ out.columns[1].values[2] = PyStr(<<>>)
           /\ \E o \in ColumnsNamed(out, "student_id_original") :
                  out.columns[o].values = <<PyStr(StudentOne), PyStr(<<>>)>>


(***************************************************************************)
(* Properties of the persistence steps and of the result                   *)
(***************************************************************************)
WarehouseCalls ==
    { "load_parquet_to_staging", "merge_staging_to_core", "upsert_dimensions",
      "insert_observation" }

\* the call is on the tabular path and has not gone over to the free-form one
OnTabularPath == "TABULAR_PATH" \in Range(stages) /\ "FREE_FORM_PATH" \notin Range(stages)

\* every call of "later" has a call of "earlier" before it
CalledBefore(earlier, later) ==
    \A i \in DOMAIN calls :
        calls[i] = later => \E j \in 1..(i - 1) : calls[j] = earlier

\* C28: on the tabular path the staging load is attempted only after the
\* clean-layer write returned a non-empty location, the merge only after the
\* staging load succeeded, the dimension upserts only after the merge
\* succeeded, and after a failed clean-layer write no warehouse call is made.
C28_PersistenceOrdered ==
    OnTabularPath =>
        /\ "load_parquet_to_staging" \in Range(calls) =>
               /\ CalledBefore("write_clean_parquet", "load_parquet_to_staging")
               /\ "write_clean_parquet" \notin failed
               /\ clean_location \notin {None, Some("")}
        /\ "merge_staging_to_core" \in Range(calls) =>
               /\ CalledBefore("load_parquet_to_staging", "merge_staging_to_core")
               /\ "load_parquet_to_staging" \notin failed
               /\ load_result # None
        /\ "upsert_dimensions" \in Range(calls) =>
               /\ CalledBefore("merge_staging_to_core", "upsert_dimensions")
               /\ "merge_staging_to_core" \notin failed
        /\ "write_clean_parquet" \in failed => Range(calls) \cap WarehouseCalls = {}

\* a tabular call returned after the write, the load, the merge and the
\* upserts, in that order
C28_Witness ==
    /\ Returned
    /\ OnTabularPath
    /\ Len(calls) >= 4
    /\ SubSeq(calls, Len(calls) - 3, Len(calls)) =
           << "write_clean_parquet", "load_parquet_to_staging", "merge_staging_to_core",
              "upsert_dimensions" >>

\* a tabular call returned after a failed clean-layer write, its last call
C28_WitnessFailedWrite ==
    /\ Returned
    /\ OnTabularPath
    /\ "write_clean_parquet" \in failed
    /\ calls[Len(calls)] = "write_clean_parquet"


\* C29: every IngestResult of process_tabular_text is well formed: its status
\* is FAILED exactly when it has an error_message; a FAILED result has neither
\* table_type nor rows_loaded; an INGESTED result has both, and one returned
\* by the tabular persistence path never has table_type FREE_FORM.
C29_ResultWellFormed ==
    result # None =>
        /\ result[1].status \in {"INGESTED", "FAILED"}
        /\ result[1].status = "FAILED" <=> result[1].error_message # None
        /\ result[1].status = "FAILED" =>
               result[1].table_type = None /\ result[1].rows_loaded = None
        /\ result[1].status = "INGESTED" =>
               result[1].table_type # None /\ result[1].rows_loaded # None
        /\ (result[1].status = "INGESTED" /\ OnTabularPath) =>
               /\ result[1].table_type # Some("FREE_FORM")
               /\ Range(calls) \cap {"write_clean_parquet"} # {}

\* a call failed after its table was classified: the result is FAILED with an
\* error_message and without table_type and rows_loaded
C29_Witness ==
    /\ Returned
    /\ table_type # None
    /\ df # None
    /\ result[1].status = "FAILED"
    /\ result[1].error_message # None
    /\ result[1].table_type = None
    /\ result[1].rows_loaded = None

\* a call returned from the tabular persistence path with the classified type
C29_WitnessTabular ==
    /\ Returned
    /\ OnTabularPath
    /\ result[1].status = "INGESTED"
    /\ result[1].table_type = Some("ASSESSMENT")
    /\ result[1].rows_loaded = df

\* a call of low classification confidence returned from the free-form path
C29_WitnessRerouted ==
    /\ Returned
    /\ "TABULAR_PATH" \in Range(stages)
    /\ "FREE_FORM_PATH" \in Range(stages)
    /\ result[1].status = "INGESTED"
    /\ result[1].table_type = Some("FREE_FORM")
    /\ result[1].rows_loaded = Some(1)

====
